---- MODULE Spec2Model ----
(***************************************************************************)
(* Model of the civic-resource referral pipeline of                        *)
(* src/agents/civic_crewai_system.py: the URL sanitizer, the need          *)
(* classifier with its rule-based fallback, the resource searcher with its *)
(* static tables, the verifier, the response assembler and run_civic_chat. *)
(* Text is modelled by TLA+ strings, character by character.               *)
(***************************************************************************)
EXTENDS Integers, Sequences, FiniteSets, TLC

VARIABLES
    \* ---- one run_civic_chat request (CivicState and the flow position) ----
    pc,                 \* the next step of the request
    search_tool,        \* TRUE when SERPER_API_KEY gave the flow a search tool
    store,              \* the rows of the conversations table, all sessions
    user_message,
    current_date,
    session_id,
    enable_streaming,   \* TRUE in a run_civic_chat_streaming call
    conversation_history,
    needs_search,
    need_category,
    urgency_level,
    search_performed,
    search_query,       \* Optional[str]: <<>> is None, <<s>> is the string s
    search_results,     \* Optional[str]
    resources_found,
    verification_results, \* Optional[str]
    civic_response,
    response_source,
    result,             \* the dict run_civic_chat returned, <<>> before
    error,              \* Optional[str]: the text of the exception in flight
    stream_messages,    \* the messages handed to stream_callback so far
    \* ---- what the collaborators did in this request ----
    llm_outcome,        \* the intake crew's kickoff: <<>> not called yet,
                        \* [raised |-> TRUE] or [raised |-> FALSE, text |-> t]
    classifier_path,    \* "none", "primary" or "fallback"
    search_outcome,     \* "none", "unavailable", "raised" or "returned"
    verifier_invoked,   \* TRUE once the verifier crew was kicked off
    verifier_outcome,   \* how the verifier crew's kickoff ended
    history_outcome,    \* how the history read ended: "none", "read", "failed"
    save_outcome,       \* how the save ended: "none", "saved", "store_failed",
                        \* "not_run"
    sanitizer_runs,     \* calls of _clean_fake_urls made by the entry point
    \* ---- the sanitizer harness ----
    san_stage,      \* "idle", "input", "once" or "twice"
    san_fn,         \* which twin was applied: "none", "clean" or "validate"
    san_in,         \* the resource list handed to the sanitizer
    san_once,       \* the list after the first pass
    san_out,        \* the list after the last pass made
    \* ---- the verification-tool harness ----
    tool_stage,     \* "idle", "input" or "done"
    tool_name,      \* the tool that ran: "none" or its name
    tool_in,        \* the string handed to the tool
    tool_out,       \* the string the tool returned
    \* ---- the server: requests that run at the same time ----
    requests,       \* per request: its session, message, place and listener
    received,       \* the requests in the order they were received
    event_bus,      \* crewai_event_bus: the owner of each registered handler set
    _global_tool_listener,  \* the request whose listener the global names
    \* ---- one run_civic_flow call (the simple flow of api/civic_flow.py) ----
    civic_flow,     \* its CivicState, its place and the dict it returned
    \* ---- the PerformanceTracker of one run and the step_timings it gives ----
    tracker,
    \* ---- one _evaluate_single_resource call of the eligibility agent ----
    assessment,
    \* ---- one POST /api/query request at the endpoint civic_query ----
    endpoint

stateVars ==
    <<user_message, session_id, enable_streaming, current_date,
      conversation_history,
      needs_search, need_category, urgency_level,
      search_performed, search_query, search_results, resources_found,
      verification_results, civic_response, response_source>>

ghostVars == <<llm_outcome, classifier_path, search_outcome, verifier_invoked,
               verifier_outcome, history_outcome, save_outcome,
               sanitizer_runs>>

flowVars == <<pc, search_tool, stateVars, result, error, stream_messages,
              ghostVars>>

pipeVars == <<store, flowVars>>

sanVars == <<san_stage, san_fn, san_in, san_once, san_out>>

toolVars == <<tool_stage, tool_name, tool_in, tool_out>>

serverVars == <<requests, received, event_bus, _global_tool_listener>>

\* the harnesses of the simple flow, the eligibility agent and the endpoint
extraVars == <<civic_flow, tracker, assessment, endpoint>>

vars == <<pipeVars, sanVars, toolVars, serverVars, extraVars>>

(***************************************************************************)
(* Bounds of the model.                                                    *)
(***************************************************************************)
MaxResources == 2

(***************************************************************************)
(* Python string primitives.  Every operator works on positions of the     *)
(* string, so that texts of a few hundred characters are handled.          *)
(***************************************************************************)
Char(s, i) == SubSeq(s, i, i)

\* Python: s[p-1:]
RestOf(s, p) == SubSeq(s, p, Len(s))

Min(S) == CHOOSE x \in S : \A y \in S : x <= y

\* the k-th smallest element of a set of numbers
Nth(S, k) == CHOOSE p \in S : Cardinality({q \in S : q < p}) = k - 1

\* Python: ''.join(parts[lo-1:hi])
RECURSIVE JoinRange(_, _, _)
JoinRange(parts, lo, hi) ==
    IF lo > hi THEN ""
    ELSE IF lo = hi THEN parts[lo]
    ELSE JoinRange(parts, lo, (lo + hi) \div 2)
             \o JoinRange(parts, (lo + hi) \div 2 + 1, hi)

\* Python: ''.join(parts)
Join(parts) == JoinRange(parts, 1, Len(parts))

\* Python: sub in s
Contains(s, sub) ==
    \E i \in 1..(Len(s) - Len(sub) + 1) : SubSeq(s, i, i + Len(sub) - 1) = sub

\* Python: s.startswith(p)
StartsWith(s, p) == Len(p) <= Len(s) /\ SubSeq(s, 1, Len(p)) = p

\* Python: s.find(sub) + 1: the first place of sub in s, 0 when absent
FirstPlace(s, sub) ==
    IF Contains(s, sub)
    THEN Min({i \in 1..(Len(s) - Len(sub) + 1) :
                  SubSeq(s, i, i + Len(sub) - 1) = sub})
    ELSE 0

Digits == {"0", "1", "2", "3", "4", "5", "6", "7", "8", "9"}

IsDigit(c) == c \in Digits

Spaces == {" ", "\t", "\n", "\r", "\f"}

IsSpace(c) == c \in Spaces

\* the last position of the run of characters of class that starts at p
RunEndIn(s, p, class) ==
    CHOOSE e \in p..Len(s) :
        /\ \A k \in p..e : Char(s, k) \in class
        /\ (e = Len(s) \/ Char(s, e + 1) \notin class)

\* the last position of the run of characters outside class that starts at p
RunEndNotIn(s, p, class) ==
    CHOOSE e \in p..Len(s) :
        /\ \A k \in p..e : Char(s, k) \notin class
        /\ (e = Len(s) \/ Char(s, e + 1) \in class)

\* Python: re.findall(r'\d+', s), the maximal runs of digits, left to right
FindAllDigits(s) ==
    LET starts == {i \in 1..Len(s) :
                       /\ IsDigit(Char(s, i))
                       /\ (i = 1 \/ ~IsDigit(Char(s, i - 1)))}
    IN  [k \in 1..Cardinality(starts) |->
            SubSeq(s, Nth(starts, k), RunEndIn(s, Nth(starts, k), Digits))]

\* Python: d.get(key, default)
Get(d, key, default) == IF key \in DOMAIN d THEN d[key] ELSE default

UpperAlpha == "ABCDEFGHIJKLMNOPQRSTUVWXYZ"
LowerAlpha == "abcdefghijklmnopqrstuvwxyz"

UpperLetters == {Char(UpperAlpha, i) : i \in 1..Len(UpperAlpha)}
LowerLetters == {Char(LowerAlpha, i) : i \in 1..Len(LowerAlpha)}

ToLower ==
    [c \in UpperLetters |->
        Char(LowerAlpha, CHOOSE i \in 1..Len(UpperAlpha) : Char(UpperAlpha, i) = c)]

ToUpper ==
    [c \in LowerLetters |->
        Char(UpperAlpha, CHOOSE i \in 1..Len(LowerAlpha) : Char(LowerAlpha, i) = c)]

LowerChar(c) == IF c \in UpperLetters THEN ToLower[c] ELSE c

UpperChar(c) == IF c \in LowerLetters THEN ToUpper[c] ELSE c

\* Python: s.lower()
Lower(s) == Join([i \in 1..Len(s) |-> LowerChar(Char(s, i))])

\* Python: s.upper()
Upper(s) == Join([i \in 1..Len(s) |-> UpperChar(Char(s, i))])

IsAlpha(c) == c \in UpperLetters \/ c \in LowerLetters

\* the regex class \w
IsWordChar(c) == IsAlpha(c) \/ IsDigit(c) \/ c = "_"

\* Python: s.lstrip(), s.rstrip(), s.strip()
LStrip(s) ==
    IF \A i \in 1..Len(s) : IsSpace(Char(s, i)) THEN ""
    ELSE RestOf(s, Min({i \in 1..Len(s) : ~IsSpace(Char(s, i))}))

RStrip(s) ==
    IF \A i \in 1..Len(s) : IsSpace(Char(s, i)) THEN ""
    ELSE SubSeq(s, 1, CHOOSE e \in 1..Len(s) :
                          /\ ~IsSpace(Char(s, e))
                          /\ \A k \in (e + 1)..Len(s) : IsSpace(Char(s, k)))

Strip(s) == RStrip(LStrip(s))

\* Python: s.find(c) and s.rfind(c) for a character c: 0-based, -1 when absent
Find(s, c) ==
    IF \E i \in 1..Len(s) : Char(s, i) = c
    THEN Min({i \in 1..Len(s) : Char(s, i) = c}) - 1
    ELSE -1

RFind(s, c) ==
    IF \E i \in 1..Len(s) : Char(s, i) = c
    THEN (CHOOSE i \in 1..Len(s) :
              Char(s, i) = c /\ \A j \in (i + 1)..Len(s) : Char(s, j) # c) - 1
    ELSE -1

\* Python: s[a:b] for 0 <= a
Slice(s, a, b) == SubSeq(s, a + 1, IF b > Len(s) THEN Len(s) ELSE b)

\* Python: s.replace(old, new) for a single character old
ReplaceChar(s, old, new) ==
    Join([i \in 1..Len(s) |-> IF Char(s, i) = old THEN new ELSE Char(s, i)])

\* Python: s.title(): a letter after a non-letter is upper-cased, any other
\* letter lower-cased
Title(s) ==
    Join([i \in 1..Len(s) |->
             IF i > 1 /\ IsAlpha(Char(s, i - 1))
             THEN LowerChar(Char(s, i)) ELSE UpperChar(Char(s, i))])

\* Optional[str]: None, a string, and Python's truth value of it
None == <<>>
Some(s) == <<s>>
Truthy(opt) == opt # None /\ opt[1] # ""

(***************************************************************************)
(* URL sanitizer: _clean_fake_urls and its twin _validate_resource_urls.   *)
(***************************************************************************)
fake_domains ==
    << "211centralillinois.org", "peoriarescuemission.org",
       "salvationarmyheartland.org", "hoihabitat.org", "peoria.score.org",
       "greaterpeoriaedc.org", "illinoissbdc.org" >>

IsFakeFirstOnly(url) == Contains(url, fake_domains[1])

\* is_fake = any(fake_domain in url for fake_domain in fake_domains)
IsFake(url) == \E k \in 1..Len(fake_domains) : Contains(url, fake_domains[k])

\* phone and ('(' in phone or phone.startswith('2-1-1') or 'Dial' in phone)
IsDialable(phone) ==
    /\ phone # ""
    /\ \/ Contains(phone, "(")
       \/ StartsWith(phone, "2-1-1")
       \/ Contains(phone, "Dial")

\* f'tel:{phone_num[:3]}-{phone_num[3:6]}-{phone_num[6:]}' or f'tel:{phone_num}'
FormatTel(phone_num) ==
    IF Len(phone_num) = 10
    THEN "tel:" \o SubSeq(phone_num, 1, 3) \o "-" \o SubSeq(phone_num, 4, 6)
               \o "-" \o SubSeq(phone_num, 7, 10)
    ELSE "tel:" \o phone_num

ReplacementUrlKeepsDomain(url, phone) ==
    IF IsDialable(phone) THEN "tel:211" ELSE "tel:" \o url

\* the url written over a denylisted one, from the resource's contact
ReplacementUrl(url, phone) ==
    IF IsDialable(phone)
    THEN IF Contains(phone, "Dial 2-1-1") \/ StartsWith(phone, "2-1-1")
         THEN "tel:211"
         ELSE LET numbers == FindAllDigits(phone) IN
              IF Len(numbers) >= 3
              THEN FormatTel(Join(numbers))
              ELSE "tel:211"
    ELSE "tel:211"

CleanResourceAnyUrl(resource) ==
    LET url == Get(resource, "url", "") IN
    IF url # ""
    THEN [resource EXCEPT !["url"] =
              ReplacementUrl(url, Get(resource, "contact", ""))]
    ELSE resource

\* one iteration of the loop: copy the resource, rewrite a denylisted url
CleanResource(resource) ==
    LET url == Get(resource, "url", "") IN
    IF url # "" /\ IsFake(url)
    THEN [resource EXCEPT !["url"] =
              ReplacementUrl(url, Get(resource, "contact", ""))]
    ELSE resource

_clean_fake_urls(resources) ==
    [i \in 1..Len(resources) |-> CleanResource(resources[i])]

_validate_resource_urls(resources) ==
    [i \in 1..Len(resources) |-> CleanResource(resources[i])]

(***************************************************************************)
(* Need classifier: decide_strategy.                                       *)
(***************************************************************************)
\* the regex assertion \b between text[p] and text[p+1] (p = 0 is the start)
Boundary(text, p) ==
    (p > 0 /\ IsWordChar(Char(text, p)))
        # (p < Len(text) /\ IsWordChar(Char(text, p + 1)))

HasWordSubstring(text, words) ==
    \E k \in 1..Len(words) : Contains(Lower(text), Lower(words[k]))

\* has_word: re.search(r'\b' + re.escape(word) + r'\b', text, re.IGNORECASE)
\* for some word of words
has_word(text, words) ==
    \E k \in 1..Len(words) :
        \E i \in 1..(Len(text) - Len(words[k]) + 1) :
            /\ Boundary(text, i - 1)
            /\ Boundary(text, i + Len(words[k]) - 1)
            /\ Lower(SubSeq(text, i, i + Len(words[k]) - 1)) = Lower(words[k])

housing_words ==
    <<"housing", "house", "rent", "apartment", "home", "shelter", "homeless">>
emergency_words == <<"emergency", "urgent", "immediately", "crisis", "homeless">>
food_words == <<"food", "hungry", "meal", "pantry", "snap", "groceries", "eating">>
healthcare_words ==
    <<"health", "medical", "doctor", "clinic", "mental", "healthcare">>
family_words ==
    <<"child", "safety", "abuse", "neglect", "family", "parenting", "protection">>
employment_words ==
    <<"job", "work", "employment", "career", "business", "startup",
      "restaurant", "company">>
transportation_words ==
    <<"transport", "bus", "ride", "car", "transportation", "travel">>
legal_words == <<"legal", "lawyer", "court", "law">>
financial_words == <<"financial", "money", "bills", "debt", "assistance">>

greetings == {"hi", "hello", "hey"}

IsGreetingNoStrip(message) == Lower(message) \in greetings

\* user_msg = self.state.user_message.lower().strip(); user_msg in [...]
IsGreeting(message) == Strip(Lower(message)) \in greetings

FallbackUrgencyAlwaysMedium(user_msg, urgency) == "medium"

\* the urgency the fallback leaves: only the housing branch assigns it
FallbackUrgency(user_msg, urgency) ==
    IF has_word(user_msg, housing_words)
    THEN IF has_word(user_msg, emergency_words) THEN "high" ELSE "medium"
    ELSE urgency

\* the if/elif chain of the fallback, on the lower-cased, stripped message
FallbackCategory(user_msg) ==
    IF has_word(user_msg, housing_words) THEN "housing"
    ELSE IF has_word(user_msg, food_words) THEN "food"
    ELSE IF has_word(user_msg, healthcare_words) THEN "healthcare"
    ELSE IF has_word(user_msg, family_words) THEN "family_services"
    ELSE IF has_word(user_msg, employment_words) THEN "employment"
    ELSE IF has_word(user_msg, transportation_words) THEN "transportation"
    ELSE IF has_word(user_msg, legal_words) THEN "legal"
    ELSE IF has_word(user_msg, financial_words) THEN "financial"
    ELSE "general"

\* the except branch of decide_strategy: the fields it leaves in the state
FallbackAnalysis(message, category, urgency) ==
    IF IsGreeting(message)
    THEN [needs_search |-> FALSE, need_category |-> "",
          urgency_level |-> urgency]
    ELSE [needs_search |-> TRUE,
          need_category |-> FallbackCategory(Strip(Lower(message))),
          urgency_level |-> FallbackUrgency(Strip(Lower(message)), urgency)]

\* ---- the texts the language model returns in this model ----
JsonFood ==
    "{\"conversation_type\": \"CIVIC_NEED\", \"need_category\": \"food\", \"urgency_level\": \"medium\", \"search_decision\": \"SEARCH_NEEDED\"}"
JsonHousingHigh ==
    "{\"need_category\": \"housing\", \"urgency_level\": \"high\", \"search_decision\": \"SEARCH_NEEDED\"}"
JsonFamily ==
    "{\"need_category\": \"family_services\", \"urgency_level\": \"low\", \"search_decision\": \"SEARCH_NEEDED\"}"
JsonLegal ==
    "{\"need_category\": \"legal\", \"urgency_level\": \"medium\", \"search_decision\": \"SEARCH_NEEDED\"}"
JsonGreeting ==
    "{\"conversation_type\": \"GREETING\", \"need_category\": \"general\", \"urgency_level\": \"low\", \"search_decision\": \"CONVERSATION_ONLY\"}"
JsonPets ==
    "{\"need_category\": \"pets\", \"search_decision\": \"SEARCH_NEEDED\"}"
JsonNoKeys == "{\"reasoning\": \"unclear\"}"
JsonList == "[1]"

\* json.loads on the documents above; any other text is a parse error
JsonTable ==
    (JsonFood :> [kind |-> "dict",
                  obj |-> [conversation_type |-> "CIVIC_NEED",
                           need_category |-> "food",
                           urgency_level |-> "medium",
                           search_decision |-> "SEARCH_NEEDED"]])
    @@ (JsonHousingHigh :> [kind |-> "dict",
                            obj |-> [need_category |-> "housing",
                                     urgency_level |-> "high",
                                     search_decision |-> "SEARCH_NEEDED"]])
    @@ (JsonFamily :> [kind |-> "dict",
                       obj |-> [need_category |-> "family_services",
                                urgency_level |-> "low",
                                search_decision |-> "SEARCH_NEEDED"]])
    @@ (JsonLegal :> [kind |-> "dict",
                      obj |-> [need_category |-> "legal",
                               urgency_level |-> "medium",
                               search_decision |-> "SEARCH_NEEDED"]])
    @@ (JsonGreeting :> [kind |-> "dict",
                         obj |-> [conversation_type |-> "GREETING",
                                  need_category |-> "general",
                                  urgency_level |-> "low",
                                  search_decision |-> "CONVERSATION_ONLY"]])
    @@ (JsonPets :> [kind |-> "dict",
                     obj |-> [need_category |-> "pets",
                              search_decision |-> "SEARCH_NEEDED"]])
    @@ (JsonNoKeys :> [kind |-> "dict", obj |-> [reasoning |-> "unclear"]])
    @@ (JsonList :> [kind |-> "list"])

json_loads(text) ==
    IF text \in DOMAIN JsonTable THEN JsonTable[text] ELSE [kind |-> "error"]

ExtractJsonWhole(result_text) == Strip(result_text)

\* the text handed to json.loads: from the first '{' through the last '}'
\* when there is such a span, the whole stripped text otherwise
ExtractJson(result_text) ==
    LET result_str == Strip(result_text)
        json_start == Find(result_str, "{")
        json_end   == RFind(result_str, "}") + 1
    IN  IF json_start # -1 /\ json_end > json_start
        THEN Slice(result_str, json_start, json_end)
        ELSE result_str

\* the try block succeeds when json.loads returns a dict (analysis.get exists)
ParsesToDict(result_text) == json_loads(ExtractJson(result_text)).kind = "dict"

PrimaryAnalysis(result_text) ==
    LET analysis == json_loads(ExtractJson(result_text)).obj IN
    [needs_search  |-> Get(analysis, "search_decision", "None") = "SEARCH_NEEDED",
     need_category |-> Get(analysis, "need_category", "general"),
     urgency_level |-> Get(analysis, "urgency_level", "medium")]

(***************************************************************************)
(* Resource searcher: _build_search_query, _parse_search_results and       *)
(* _use_fallback_resources.                                                *)
(***************************************************************************)
\* Python: text.split(newline)
SplitLines(s) ==
    LET breaks == {i \in 1..Len(s) : Char(s, i) = "\n"}
        count  == Cardinality(breaks)
        from(k) == IF k = 1 THEN 1 ELSE Nth(breaks, k - 1) + 1
        upto(k) == IF k = count + 1 THEN Len(s) ELSE Nth(breaks, k) - 1
    IN  [k \in 1..(count + 1) |-> SubSeq(s, from(k), upto(k))]

\* Python: d[key] = value on a dict
Put(d, key, value) == (key :> value) @@ d

EmptyDict == <<>>

\* n digits stand at s[p .. p+n-1]
DigitsAt(s, p, n) ==
    p + n - 1 <= Len(s) /\ \A k \in p..(p + n - 1) : IsDigit(Char(s, k))

\* the position after an optional character of class ok at p
SkipOptional(s, p, ok) == IF p <= Len(s) /\ Char(s, p) \in ok THEN p + 1 ELSE p

PhoneSeparators == {"-", "."} \cup Spaces

\* phone_pattern matched at i: an optional (, 3 digits, an optional ), an
\* optional separator, 3 digits, an optional separator, 4 digits; the
\* position after the match, 0 when there is none
PhoneMatchEnd(s, i) ==
    LET p1 == SkipOptional(s, i, {"("}) IN
    IF ~DigitsAt(s, p1, 3) THEN 0
    ELSE LET p2 == SkipOptional(s, SkipOptional(s, p1 + 3, {")"}),
                                PhoneSeparators) IN
         IF ~DigitsAt(s, p2, 3) THEN 0
         ELSE LET p3 == SkipOptional(s, p2 + 3, PhoneSeparators) IN
              IF ~DigitsAt(s, p3, 4) THEN 0 ELSE p3 + 4

\* re.findall(phone_pattern, line): whether it is non-empty, and phones[0]
FirstPhone(line) ==
    IF \E i \in 1..Len(line) : PhoneMatchEnd(line, i) > 0
    THEN LET i == Min({j \in 1..Len(line) : PhoneMatchEnd(line, j) > 0})
         IN [found |-> TRUE, text |-> SubSeq(line, i, PhoneMatchEnd(line, i) - 1)]
    ELSE [found |-> FALSE, text |-> ""]

\* the characters the url pattern excludes (the backquote, which a TLA+
\* string cannot hold, is left out)
UrlExcluded == {"<", ">", "\"", "{", "}", "|", "\\", "^", "[", "]"} \cup Spaces

\* url_pattern (http or https, ://, then a run of url characters) matched
\* at i: the position of the last character of the match, 0 when none
UrlMatchEnd(s, i) ==
    LET n == IF i + 7 <= Len(s) /\ SubSeq(s, i, i + 7) = "https://" THEN 8
             ELSE IF i + 6 <= Len(s) /\ SubSeq(s, i, i + 6) = "http://" THEN 7
             ELSE 0
    IN  IF n > 0 /\ i + n <= Len(s) /\ Char(s, i + n) \notin UrlExcluded
        THEN RunEndNotIn(s, i + n, UrlExcluded) ELSE 0

\* re.findall(url_pattern, line): whether it is non-empty, and urls[0]
FirstUrl(line) ==
    IF \E i \in 1..Len(line) : UrlMatchEnd(line, i) > 0
    THEN LET i == Min({j \in 1..Len(line) : UrlMatchEnd(line, j) > 0})
         IN [found |-> TRUE, text |-> SubSeq(line, i, UrlMatchEnd(line, i))]
    ELSE [found |-> FALSE, text |-> ""]

\* the pattern \*\*([^*]+)\*\* matched at i: the position of its last
\* character, 0 when there is no match
BoldMatchEnd(s, i) ==
    IF /\ i + 2 <= Len(s)
       /\ SubSeq(s, i, i + 1) = "**"
       /\ Char(s, i + 2) # "*"
    THEN LET e == RunEndNotIn(s, i + 2, {"*"}) IN
         IF e + 2 <= Len(s) /\ SubSeq(s, e + 1, e + 2) = "**" THEN e + 2
         ELSE 0
    ELSE 0

\* re.sub(r'\*\*([^*]+)\*\*', r'\1', s): one step for each match
RECURSIVE RemoveBold(_)
RemoveBold(s) ==
    IF \E i \in 1..Len(s) : BoldMatchEnd(s, i) > 0
    THEN LET i == Min({j \in 1..Len(s) : BoldMatchEnd(s, j) > 0})
             e == BoldMatchEnd(s, i)
         IN  SubSeq(s, 1, i - 1) \o SubSeq(s, i + 2, e - 2)
                 \o RemoveBold(RestOf(s, e + 1))
    ELSE s

\* re.sub(r'[#]+\s*', '', s): one step for each run of #
RECURSIVE RemoveHashes(_)
RemoveHashes(s) ==
    IF Contains(s, "#")
    THEN LET i == FirstPlace(s, "#") IN
         SubSeq(s, 1, i - 1)
             \o RemoveHashes(LStrip(RestOf(s, RunEndIn(s, i, {"#"}) + 1)))
    ELSE s

\* re.sub(label + r'\s*', '', s): one step for each occurrence
RECURSIVE RemoveLabel(_, _)
RemoveLabel(s, label) ==
    IF Contains(s, label)
    THEN LET i == FirstPlace(s, label) IN
         SubSeq(s, 1, i - 1)
             \o RemoveLabel(LStrip(RestOf(s, i + Len(label))), label)
    ELSE s

\* a bullet of the pattern [-*]\s+ stands at i (the pattern's third bullet
\* character is not ASCII)
BulletAt(s, i) ==
    Char(s, i) \in {"-", "*"} /\ i < Len(s) /\ IsSpace(Char(s, i + 1))

\* re.sub(r'[-*]\s+', '', s): one step for each bullet
RECURSIVE RemoveBullets(_)
RemoveBullets(s) ==
    IF \E i \in 1..Len(s) : BulletAt(s, i)
    THEN LET i == Min({j \in 1..Len(s) : BulletAt(s, j)}) IN
         SubSeq(s, 1, i - 1) \o RemoveBullets(LStrip(RestOf(s, i + 1)))
    ELSE s

\* re.sub(r'\s+', ' ', s)
NormalizeSpaces(s) ==
    Join([i \in 1..Len(s) |->
             IF ~IsSpace(Char(s, i)) THEN Char(s, i)
             ELSE IF i > 1 /\ IsSpace(Char(s, i - 1)) THEN "" ELSE " "])

\* re.sub(r'^[-*#]+\s*', '', line)
StripLeadingMarkup(line) ==
    IF line # "" /\ Char(line, 1) \in {"-", "*", "#"}
    THEN LStrip(RestOf(line, RunEndIn(line, 1, {"-", "*", "#"}) + 1))
    ELSE line

\* the clean_name of a name line
CleanName(line) ==
    RemoveLabel(
        RemoveLabel(
            RemoveHashes(RemoveBold(Strip(StripLeadingMarkup(line)))),
            "PRIMARY RESOURCE:"),
        "SECONDARY RESOURCE:")

\* the clean-up of a parsed description
CleanDescription(desc) ==
    Strip(NormalizeSpaces(RemoveBullets(RemoveHashes(RemoveBold(desc)))))

name_markers ==
    <<"CAREER LINK", "GOODWILL", "ILLINOIS CENTRAL COLLEGE",
      "PRIMARY RESOURCE:", "SECONDARY RESOURCE:", "**CAREER LINK",
      "**GOODWILL">>

description_words ==
    <<"services:", "what they offer:", "training", "assistance", "help">>

ContainsAny(s, subs) == \E k \in 1..Len(subs) : Contains(s, subs[k])

\* need_category.replace('_', ' ') and its .title()
CategoryWords(category) == ReplaceChar(category, "_", " ")
CategoryTitle(category) == Title(CategoryWords(category))

\* line.split(':', 1)[1].strip() for a line that holds a ':'
AfterColon(line) == Strip(RestOf(line, Find(line, ":") + 2))

\* the name line: the resource under construction, when it has a name, is
\* appended and a new one is started with the cleaned name
StartResource(line, acc, category) ==
    IF ContainsAny(Upper(line), name_markers)
    THEN [resources |-> IF "name" \in DOMAIN acc.current
                        THEN Append(acc.resources, acc.current)
                        ELSE acc.resources,
          current |->
              Put(Put(Put(Put(Put(
                  IF "name" \in DOMAIN acc.current THEN EmptyDict
                  ELSE acc.current,
                  "name", CleanName(line)),
                  "category", CategoryTitle(category)),
                  "description", ""),
                  "contact", ""),
                  "url", "")]
    ELSE acc

\* "Extract phone numbers"
TakePhone(line, acc) ==
    IF FirstPhone(line).found /\ "contact" \in DOMAIN acc.current
    THEN [acc EXCEPT !.current = Put(@, "contact", FirstPhone(line).text)]
    ELSE acc

\* "Extract URLs"
TakeUrl(line, acc) ==
    IF FirstUrl(line).found /\ "url" \in DOMAIN acc.current
    THEN [acc EXCEPT !.current = Put(@, "url", FirstUrl(line).text)]
    ELSE acc

\* "Extract addresses"
TakeLocation(line, acc) ==
    IF Contains(Lower(line), "address:") \/ Contains(Lower(line), "location:")
    THEN [acc EXCEPT !.current = Put(@, "location", AfterColon(line))]
    ELSE acc

\* "Build description from relevant lines"
TakeDescription(line, acc) ==
    IF /\ "name" \in DOMAIN acc.current
       /\ line # acc.current["name"]
       /\ ContainsAny(Lower(line), description_words)
    THEN [acc EXCEPT !.current =
             Put(@, "description",
                 IF @["description"] # "" THEN @["description"] \o " " \o line
                 ELSE line)]
    ELSE acc

\* the body of "for line in lines" for a stripped, non-empty line
ProcessStripped(line, acc, category) ==
    TakeDescription(line,
        TakeLocation(line,
            TakeUrl(line,
                TakePhone(line, StartResource(line, acc, category)))))

\* the body of "for line in lines": acc is [resources, current]
ProcessLine(raw_line, acc, category) ==
    IF Strip(raw_line) = "" THEN acc
    ELSE ProcessStripped(Strip(raw_line), acc, category)

\* the state of the line loop after the first n lines
RECURSIVE ParseLinesUpTo(_, _, _)
ParseLinesUpTo(lines, n, category) ==
    IF n = 0 THEN [resources |-> <<>>, current |-> EmptyDict]
    ELSE ProcessLine(lines[n], ParseLinesUpTo(lines, n - 1, category), category)

\* the resources of the line loop, the last one included
ParsedResources(search_text, category) ==
    LET lines == SplitLines(search_text)
        final == ParseLinesUpTo(lines, Len(lines), category)
    IN  IF "name" \in DOMAIN final.current
        THEN Append(final.resources, final.current) ELSE final.resources

\* if not resource.get(key): resource[key] = default
SetDefault(resource, key, default) ==
    IF Get(resource, key, "") = "" THEN Put(resource, key, default)
    ELSE resource

\* the clean-up of resource['description'] when it is not empty
CleanedDescription(resource) ==
    IF Get(resource, "description", "") # ""
    THEN Put(resource, "description", CleanDescription(resource["description"]))
    ELSE resource

\* "Clean up resources and add missing fields" for one resource
FillDefaults(resource, category) ==
    SetDefault(
        SetDefault(
            SetDefault(
                SetDefault(CleanedDescription(resource),
                    "location", "Central Illinois area"),
                "next_step",
                "Contact for " \o CategoryWords(category) \o " assistance"),
            "eligibility", "Contact for eligibility requirements"),
        "description", "Local " \o CategoryWords(category) \o " resource")

DescriptionCap == 300

GenericResourceWholeText(search_text, category) ==
    [name |-> "Search Results Information",
     category |-> CategoryTitle(category),
     description |-> search_text,
     contact |-> "See details for contact information",
     url |-> "",
     next_step |-> "Review details for " \o CategoryWords(category)
                       \o " assistance",
     location |-> "Central Illinois",
     eligibility |-> "Varies by program"]

\* the single resource synthesized when the line loop found none
GenericResource(search_text, category) ==
    [name |-> "Search Results Information",
     category |-> CategoryTitle(category),
     description |-> IF Len(search_text) > DescriptionCap
                     THEN SubSeq(search_text, 1, DescriptionCap) \o "..."
                     ELSE search_text,
     contact |-> "See details for contact information",
     url |-> "",
     next_step |-> "Review details for " \o CategoryWords(category)
                       \o " assistance",
     location |-> "Central Illinois",
     eligibility |-> "Varies by program"]

\* lines 1180-1201
EmergencyHousingResources ==
    << [name |-> "Peoria Rescue Ministries Emergency Shelter",
        category |-> "Emergency Shelter",
        description |-> "Emergency shelter services for individuals and families experiencing homelessness",
        contact |-> "(309) 676-6416",
        url |-> "tel:309-676-6416",
        next_step |-> "Call immediately for emergency shelter availability",
        location |-> "600 NE Adams Street, Peoria, IL",
        eligibility |-> "Emergency situations, immediate need"],
       [name |-> "Salvation Army Emergency Assistance",
        category |-> "Emergency Housing Aid",
        description |-> "Emergency rental assistance, utility help, and shelter referrals",
        contact |-> "(309) 671-1621",
        url |-> "https://www.salvationarmyusa.org/usa-central-territory/",
        next_step |-> "Call for emergency assistance appointment",
        location |-> "720 W McClure Avenue, Peoria, IL",
        eligibility |-> "Financial crisis, immediate need"] >>

\* lines 1204-1245
CoreHousingResources ==
    << [name |-> "Heart of Illinois Habitat for Humanity",
        category |-> "Affordable Housing",
        description |-> "Builds and repairs affordable homes for qualifying families in Central Illinois",
        contact |-> "(309) 637-4828",
        url |-> "tel:309-637-4828",
        next_step |-> "Call to discuss income requirements and application process",
        location |-> "2600 N University Street, Peoria, IL",
        eligibility |-> "30-80% Area Median Income, must meet homeownership criteria"],
       [name |-> "Peoria Housing Authority",
        category |-> "Public Housing",
        description |-> "Public housing, Housing Choice Vouchers (Section 8), and affordable housing programs",
        contact |-> "(309) 673-8629",
        url |-> "https://www.pha-il.com",
        next_step |-> "Call to check waiting list status and application process",
        location |-> "100 S Richard Pryor Place, Peoria, IL",
        eligibility |-> "Income limits based on family size, background check required"],
       [name |-> "211 Central Illinois Housing Resources",
        category |-> "Housing Directory",
        description |-> "Comprehensive directory of housing assistance, rental aid, and emergency shelter programs",
        contact |-> "Dial 2-1-1",
        url |-> "tel:211",
        next_step |-> "Call 211 and say 'I need housing assistance' for personalized help",
        location |-> "Central Illinois",
        eligibility |-> "Available to all residents"],
       [name |-> "Center for Prevention of Abuse Housing Program",
        category |-> "Transitional Housing",
        description |-> "Safe transitional housing and support services for domestic violence survivors",
        contact |-> "(309) 691-0551",
        url |-> "https://centerforpreventionofabuse.org",
        next_step |-> "Call confidential hotline for housing assistance",
        location |-> "Peoria area (confidential locations)",
        eligibility |-> "Domestic violence survivors, families with children prioritized"] >>

\* lines 1248-1289
FamilyServicesResources ==
    << [name |-> "Illinois DCFS Child Abuse Hotline",
        category |-> "Emergency Child Protection",
        description |-> "24/7 hotline for reporting child abuse and neglect. Emergency protective services and crisis intervention.",
        contact |-> "1-800-252-2873",
        url |-> "https://dcfs.illinois.gov",
        next_step |-> "Call immediately if child is in danger or to report suspected abuse",
        location |-> "Statewide - serves Central Illinois",
        eligibility |-> "Available to anyone with concerns about child safety"],
       [name |-> "Center for Prevention of Abuse",
        category |-> "Crisis Support",
        description |-> "Comprehensive services for families affected by domestic violence and child abuse, including emergency shelter and counseling.",
        contact |-> "(309) 691-0551",
        url |-> "https://centerforpreventionofabuse.org",
        next_step |-> "Call 24/7 crisis hotline for immediate support and safety planning",
        location |-> "Multiple locations in Central Illinois",
        eligibility |-> "Families experiencing or at risk of violence/abuse"],
       [name |-> "OSF Children's Hospital Child Advocacy Center",
        category |-> "Medical & Legal Support",
        description |-> "Specialized medical evaluations, forensic interviews, and advocacy services for children who have experienced abuse.",
        contact |-> "(309) 655-2000",
        url |-> "https://www.osfhealthcare.org/childrens",
        next_step |-> "Contact emergency department or call for child advocacy services",
        location |-> "530 NE Glen Oak Ave, Peoria, IL",
        eligibility |-> "Children and families needing medical evaluation or advocacy"],
       [name |-> "Heart of Illinois United Way Family Support",
        category |-> "Family Services",
        description |-> "Family counseling, parenting support, and connection to child safety resources in Central Illinois.",
        contact |-> "(309) 674-1010",
        url |-> "https://uwheart.org",
        next_step |-> "Call for family support services and counseling referrals",
        location |-> "331 Fulton Street, Peoria, IL",
        eligibility |-> "Families in Central Illinois"] >>

\* lines 1292-1323
FoodResources ==
    << [name |-> "Heart of Illinois United Way Food Pantries",
        category |-> "Food Pantry",
        description |-> "Network of food pantries throughout Peoria County providing groceries and emergency food",
        contact |-> "(309) 674-1010",
        url |-> "https://www.uwheart.org/find-help",
        next_step |-> "Call to find nearest pantry location and hours",
        location |-> "Multiple locations in Peoria County",
        eligibility |-> "Income verification, most pantries serve all residents"],
       [name |-> "Salvation Army Food Services",
        category |-> "Food Assistance",
        description |-> "Hot meals, food pantry, and emergency food assistance",
        contact |-> "(309) 671-1621",
        url |-> "https://salvationarmyheartland.org",
        next_step |-> "Call for meal times and pantry hours",
        location |-> "720 W McClure Avenue, Peoria, IL",
        eligibility |-> "Open to all, no income requirements for meals"],
       [name |-> "211 Central Illinois Food Resources",
        category |-> "Food Directory",
        description |-> "Complete directory of food pantries, SNAP assistance, and meal programs in Central Illinois",
        contact |-> "Dial 2-1-1",
        url |-> "tel:211",
        next_step |-> "Call 211 and ask for food assistance near your location",
        location |-> "Central Illinois",
        eligibility |-> "Available to all residents"] >>

\* lines 1350-1358
FallbackFood ==
    << [name |-> "211 Central Illinois",
        category |-> "General Resources",
        description |-> "Comprehensive directory of food pantries, SNAP assistance, and meal programs",
        contact |-> "Dial 2-1-1",
        url |-> "tel:211",
        next_step |-> "Call 211 for current food assistance options",
        source |-> "fallback"] >>

\* lines 1359-1367
FallbackHousing ==
    << [name |-> "211 Central Illinois",
        category |-> "General Resources",
        description |-> "Housing assistance, rental aid, and emergency shelter information",
        contact |-> "Dial 2-1-1",
        url |-> "tel:211",
        next_step |-> "Call 211 for housing assistance options",
        source |-> "fallback"] >>

\* lines 1370-1378
FallbackDefault ==
    << [name |-> "211 Central Illinois",
        category |-> "General Resources",
        description |-> "Comprehensive information about local health and human services",
        contact |-> "Dial 2-1-1",
        url |-> "tel:211",
        next_step |-> "Call 211 for assistance with your specific need",
        source |-> "fallback"] >>

\* the "211 Central Illinois" record of the other categories
General211Resource(category) ==
    [name |-> "211 Central Illinois",
     category |-> CategoryTitle(category),
     description |-> "Comprehensive directory of " \o CategoryWords(category)
                         \o " resources in Central Illinois",
     contact |-> "Dial 2-1-1",
     url |-> "tel:211",
     next_step |-> "Call 211 and ask about " \o CategoryWords(category)
                       \o " assistance",
     location |-> "Central Illinois",
     eligibility |-> "Available to all residents"]

SupplementResourcesCoreFirst(category, urgency) ==
    IF Contains(category, "housing")
    THEN CoreHousingResources
             \o (IF urgency = "high" THEN EmergencyHousingResources ELSE <<>>)
    ELSE IF Contains(category, "family_services") THEN FamilyServicesResources
    ELSE IF Contains(category, "food") THEN FoodResources
    ELSE <<General211Resource(category)>>

\* the static records added after the parsed ones
SupplementResources(category, urgency) ==
    IF Contains(category, "housing")
    THEN (IF urgency = "high" THEN EmergencyHousingResources ELSE <<>>)
             \o CoreHousingResources
    ELSE IF Contains(category, "family_services") THEN FamilyServicesResources
    ELSE IF Contains(category, "food") THEN FoodResources
    ELSE <<General211Resource(category)>>

\* _parse_search_results for a non-empty search text: the new resources_found
ParseSearchResults(search_text, category, urgency) ==
    LET parsed == ParsedResources(search_text, category)
        filled == [i \in 1..Len(parsed) |-> FillDefaults(parsed[i], category)]
        base   == IF filled = <<>> /\ search_text # ""
                  THEN <<GenericResource(search_text, category)>> ELSE filled
    IN  _validate_resource_urls(base \o SupplementResources(category, urgency))

FallbackResourcesEmptyDefault(category) ==
    IF category = "food" THEN FallbackFood
    ELSE IF category = "housing" THEN FallbackHousing
    ELSE <<>>

\* fallback_resources.get(self.state.need_category, [the generic 211 entry])
FallbackResources(category) ==
    IF category = "food" THEN FallbackFood
    ELSE IF category = "housing" THEN FallbackHousing
    ELSE FallbackDefault

Year(date) == Slice(date, 0, 4)

PeoriaSuffix(date) == " Peoria Illinois " \o Year(date)

\* _build_search_query
_build_search_query(category, urgency, date) ==
    LET base_query ==
            IF category = "housing"
            THEN "emergency housing rental assistance" \o PeoriaSuffix(date)
            ELSE IF category = "food"
            THEN "food pantry SNAP assistance" \o PeoriaSuffix(date)
            ELSE IF category = "healthcare"
            THEN "community health clinic" \o PeoriaSuffix(date)
            ELSE IF category = "transportation"
            THEN "public transportation paratransit" \o PeoriaSuffix(date)
            ELSE IF category = "employment"
            THEN "job training employment services" \o PeoriaSuffix(date)
            ELSE IF category = "financial"
            THEN "financial assistance emergency funds" \o PeoriaSuffix(date)
            ELSE IF category = "legal"
            THEN "legal aid free legal services" \o PeoriaSuffix(date)
            ELSE IF category = "family_services"
            THEN "family services child care" \o PeoriaSuffix(date)
            ELSE IF category = "elderly_services"
            THEN "senior services elderly assistance" \o PeoriaSuffix(date)
            ELSE category \o " services" \o PeoriaSuffix(date)
    IN  IF urgency = "high" THEN base_query \o " emergency immediate"
        ELSE base_query

(***************************************************************************)
(* Resource verifier and response assembler: fixed texts.                  *)
(***************************************************************************)
VerificationUnavailable == "Verification temporarily unavailable"

ConversationGreeting ==
    "Hi there! Welcome! I'm here to help you find local resources and support in Central Illinois - whether that's help with housing, food, healthcare, jobs, or anything else you might need. What brings you in today? What can I help you with?"

FallbackResponse ==
    "I understand you need help. For immediate assistance, call 211 (available 24/7)."

ErrorResponse ==
    "I'm having trouble right now. For immediate help, call 211 - available 24/7."

DirectPrefix(category) ==
    "Here's what I found for your " \o category \o " needs:\n\n"

(***************************************************************************)
(* History store: CivicMemory.get_conversation_history.                    *)
(***************************************************************************)
HistoryLimit == 5

\* the n newest rows of a session, newest first
\* (WHERE session_id = $1 ORDER BY created_at DESC LIMIT $2)
RecentRows(rows, session, n) ==
    LET mine == {i \in 1..Len(rows) : rows[i].session_id = session}
        newer(i) == {j \in mine : rows[j].created_at > rows[i].created_at}
        take == IF Cardinality(mine) < n THEN Cardinality(mine) ELSE n
    IN  [k \in 1..take |->
            rows[CHOOSE i \in mine : Cardinality(newer(i)) = k - 1]]

\* created_at.isoformat() of a timestamp on the model's day
isoformat(created_at) == "2025-06-01T10:0" \o ToString(created_at) \o ":00"

get_conversation_history_newest_first(rows, session, limit) ==
    LET recent == RecentRows(rows, session, limit) IN
    [i \in 1..(2 * Len(recent)) |->
        LET row == recent[(i + 1) \div 2] IN
        IF i % 2 = 1
        THEN [role |-> "user", content |-> row.user_message,
              timestamp |-> isoformat(row.created_at)]
        ELSE [role |-> "assistant", content |-> row.agent_response,
              timestamp |-> isoformat(row.created_at)]]

\* the user and assistant turns of the recent rows, oldest row first
get_conversation_history(rows, session, limit) ==
    LET recent == RecentRows(rows, session, limit) IN
    [i \in 1..(2 * Len(recent)) |->
        LET row == recent[Len(recent) - ((i + 1) \div 2) + 1] IN
        IF i % 2 = 1
        THEN [role |-> "user", content |-> row.user_message,
              timestamp |-> isoformat(row.created_at)]
        ELSE [role |-> "assistant", content |-> row.agent_response,
              timestamp |-> isoformat(row.created_at)]]

(***************************************************************************)
(* What the environment can hand to one request.                           *)
(***************************************************************************)
Messages ==
    { "hi", "  Hello ", "HEY", "hi there", "this",
      "I need rent help", "urgent rent help", "homeless",
      "Emergency housing please help", "renting a carpet",
      "food for my home", "I am hungry", "urgent food",
      "doctor for my child", "child safety", "family job", "job and bus",
      "bus to court", "lawyer money", "bills", "thanks" }

LLMTexts ==
    { JsonFood, "Here is my answer: " \o JsonHousingHigh \o " Thanks",
      JsonFamily, JsonLegal, JsonGreeting, JsonPets, JsonNoKeys, JsonList,
      "I could not classify this.", "} oops {" }

LLMOutcomes ==
    { [raised |-> TRUE, text |-> "LLM call failed"] }
        \cup { [raised |-> FALSE, text |-> t] : t \in LLMTexts }

SearchTexts ==
    { "",
      "Some general information about local programs.",
      "Several local programs offer support to residents of the Peoria area during the year.\nOpening hours and requirements change often, so residents should ask before a visit.\nMany programs ask for a photo identification and a proof of the current home address.\nThe regional information line can tell which office is open and what papers to bring.",
      "PRIMARY RESOURCE: Peoria Food Bank\nPhone: (309) 555-0100\nWebsite: https://211centralillinois.org/food\nServices: food assistance\nLocation: Peoria, IL",
      "**Goodwill** of Central Illinois\n- Job training, call 309.555.0199\nSECONDARY RESOURCE: Career Link\nhttps://www.careerlink16.com offers help" }

SearchOutcomes ==
    { [kind |-> "error", text |-> ""], [kind |-> "timeout", text |-> ""] }
        \cup { [kind |-> "text", text |-> t] : t \in SearchTexts }

VerifierOutcomes ==
    { [raised |-> TRUE, text |-> ""],
      [raised |-> FALSE, text |-> "- Peoria Food Bank: VERIFIED - all checks passed"],
      [raised |-> FALSE, text |-> "- Peoria Food Bank: WARNING - website broken"],
      [raised |-> FALSE, text |-> "- Peoria Food Bank: ISSUE - Phone: INVALID: wrong format"] }

\* a row of the conversations table written at minute created_at
StoredRow(session, created_at) ==
    [session_id |-> session,
     user_message |-> "question " \o ToString(created_at),
     agent_response |-> "answer " \o ToString(created_at),
     need_category |-> "food", urgency_level |-> "medium",
     search_performed |-> FALSE, search_query |-> None,
     resources_count |-> 0, created_at |-> created_at]

\* the table when a request arrives, if not empty: six turns of one session
\* around one turn of another, in the order the table returns them
StoredRows ==
    << StoredRow("anna", 2), StoredRow("anna", 1), StoredRow("ben", 3),
       StoredRow("anna", 4), StoredRow("anna", 6), StoredRow("anna", 5),
       StoredRow("anna", 7) >>

Sessions == {"anna", "ben"}

Dates == { "2025-06-01" }

(***************************************************************************)
(* One run_civic_chat request.                                             *)
(***************************************************************************)
\* stream_callback(message) in a streaming call
Stream(message) ==
    IF enable_streaming THEN Append(stream_messages, message)
    ELSE stream_messages

\* the session, the table and the entry point of a request
RequestCases ==
    { [session |-> "anna", rows |-> <<>>, streaming |-> FALSE],
      [session |-> "anna", rows |-> <<>>, streaming |-> TRUE],
      [session |-> "anna", rows |-> StoredRows, streaming |-> FALSE],
      [session |-> "ben", rows |-> StoredRows, streaming |-> FALSE] }

SanIdle ==
    /\ san_stage = "idle"
    /\ san_fn = "none"
    /\ san_in = <<>>
    /\ san_once = <<>>
    /\ san_out = <<>>

ToolIdle ==
    /\ tool_stage = "idle"
    /\ tool_name = "none"
    /\ tool_in = ""
    /\ tool_out = ""

\* api/civic_flow.py: a fresh CivicState of the simple flow; at names the
\* next call of run_civic_flow and result is the dict it returned
FlowState(message, tool) ==
    [at |-> "analyze_request",
     search_tool |-> tool,
     user_message |-> message,
     needs_category |-> "",
     urgency_level |-> "medium",
     resources_found |-> <<>>,
     search_completed |-> FALSE,
     agent_response |-> "",
     conversation_stage |-> "intake",
     response_source |-> "unknown",
     result |-> <<>>]

FlowIdle == civic_flow = [FlowState("", FALSE) EXCEPT !.at = "idle"]

TrackerIdle == tracker = [at |-> "idle"]

AssessmentIdle == assessment = [at |-> "idle"]

EndpointIdle == endpoint = [at |-> "idle"]

ExtraIdle == FlowIdle /\ TrackerIdle /\ AssessmentIdle /\ EndpointIdle

ServerIdle ==
    /\ requests = <<>>
    /\ received = <<>>
    /\ event_bus = <<>>
    /\ _global_tool_listener = 0

\* a fresh CivicState and the arguments of run_civic_chat
Init ==
    /\ pc = "start"
    /\ search_tool \in BOOLEAN
    /\ \E case \in RequestCases :
           /\ session_id = case.session
           /\ store = case.rows
           /\ enable_streaming = case.streaming
    /\ user_message \in Messages
    /\ current_date = ""
    /\ conversation_history = <<>>
    /\ needs_search = FALSE
    /\ need_category = ""
    /\ urgency_level = "medium"
    /\ search_performed = FALSE
    /\ search_query = None
    /\ search_results = None
    /\ resources_found = <<>>
    /\ verification_results = None
    /\ civic_response = ""
    /\ response_source = ""
    /\ result = EmptyDict
    /\ error = None
    /\ stream_messages = <<>>
    /\ llm_outcome = EmptyDict
    /\ classifier_path = "none"
    /\ search_outcome = "none"
    /\ verifier_invoked = FALSE
    /\ verifier_outcome = "none"
    /\ history_outcome = "none"
    /\ save_outcome = "none"
    /\ sanitizer_runs = 0
    /\ SanIdle
    /\ ToolIdle
    /\ ServerIdle
    /\ ExtraIdle

\* CivicCrewAISystem() and system.kickoff() start the flow
StartFlow ==
    /\ pc = "start"
    /\ stream_messages' = stream_messages
    /\ pc' = "initialize_context"
    /\ UNCHANGED <<search_tool, store, stateVars, result, error, ghostVars,
                   sanVars, toolVars, serverVars, extraVars>>

\* building the system raises (no model credentials, for one)
StartFails ==
    /\ pc = "start"
    /\ stream_messages' = stream_messages
    /\ pc' = "raised"
    /\ error' = Some("system could not be built")
    /\ UNCHANGED <<search_tool, store, stateVars, result, ghostVars, sanVars,
                   toolVars, serverVars, extraVars>>

\* initialize_context; the history read ends in rows or in [] on an error
initialize_context ==
    /\ pc = "initialize_context"
    /\ stream_messages' = Stream("Initializing civic resource system...")
    /\ pc' = "decide_strategy"
    /\ \E date \in Dates : current_date' = date
    /\ \E store_fails \in BOOLEAN :
           /\ history_outcome' = IF store_fails THEN "failed" ELSE "read"
           /\ conversation_history' =
                  IF store_fails THEN <<>>
                  ELSE get_conversation_history(store, session_id, HistoryLimit)
    /\ UNCHANGED <<search_tool, store, user_message, session_id,
                   enable_streaming, needs_search,
                   need_category, urgency_level, search_performed,
                   search_query, search_results, resources_found,
                   verification_results, civic_response, response_source,
                   result, error, llm_outcome, classifier_path,
                   search_outcome, verifier_invoked, verifier_outcome,
                   save_outcome, sanitizer_runs, sanVars, toolVars, serverVars,
                   extraVars>>

\* decide_strategy: the intake crew is kicked off outside the try block, its
\* text is parsed inside it, and the except branch is the rule-based fallback
decide_strategy ==
    /\ pc = "decide_strategy"
    /\ stream_messages' = Stream("Analyzing your request and deciding how best to help...")
    /\ \E outcome \in LLMOutcomes :
        /\ llm_outcome' = outcome
        /\ IF outcome.raised
           THEN /\ pc' = "raised"
                /\ error' = Some(outcome.text)
                /\ classifier_path' = "none"
                /\ UNCHANGED <<needs_search, need_category, urgency_level>>
           ELSE /\ pc' = "search_resources"
                /\ error' = error
                /\ LET analysis ==
                           IF ParsesToDict(outcome.text)
                           THEN PrimaryAnalysis(outcome.text)
                           ELSE FallbackAnalysis(user_message, need_category,
                                                 urgency_level)
                   IN  /\ needs_search' = analysis.needs_search
                       /\ need_category' = analysis.need_category
                       /\ urgency_level' = analysis.urgency_level
                /\ classifier_path' =
                       IF ParsesToDict(outcome.text) THEN "primary"
                       ELSE "fallback"
    /\ UNCHANGED <<search_tool, store, user_message, session_id,
                   enable_streaming, current_date,
                   conversation_history, search_performed, search_query,
                   search_results, resources_found, verification_results,
                   civic_response, response_source, result, search_outcome,
                   verifier_invoked, verifier_outcome, history_outcome, save_outcome,
                   sanitizer_runs, sanVars,
                   toolVars, serverVars, extraVars>>

SearchNotNeededSkipsVerify ==
    /\ pc = "search_resources"
    /\ stream_messages' = Stream("No search needed - preparing conversational response...")
    /\ ~needs_search
    /\ pc' = "generate_response"
    /\ response_source' = "conversation"
    /\ UNCHANGED <<search_tool, store, user_message, session_id,
                   enable_streaming, current_date,
                   conversation_history, needs_search, need_category,
                   urgency_level, search_performed, search_query,
                   search_results, resources_found, verification_results,
                   civic_response, result, error, ghostVars, sanVars,
                   toolVars, serverVars, extraVars>>

SearchNotNeededMarksSearch ==
    /\ pc = "search_resources"
    /\ stream_messages' = Stream("No search needed - preparing conversational response...")
    /\ ~needs_search
    /\ pc' = "verify_resources"
    /\ response_source' = "search"
    /\ search_performed' = TRUE
    /\ UNCHANGED <<search_tool, store, user_message, session_id,
                   enable_streaming, current_date,
                   conversation_history, needs_search, need_category,
                   urgency_level, search_query,
                   search_results, resources_found, verification_results,
                   civic_response, result, error, ghostVars, sanVars,
                   toolVars, serverVars, extraVars>>

\* search_resources when needs_search is false
SearchNotNeeded ==
    /\ pc = "search_resources"
    /\ stream_messages' = Stream("No search needed - preparing conversational response...")
    /\ ~needs_search
    /\ pc' = "verify_resources"
    /\ response_source' = "conversation"
    /\ UNCHANGED <<search_tool, store, user_message, session_id,
                   enable_streaming, current_date,
                   conversation_history, needs_search, need_category,
                   urgency_level, search_performed, search_query,
                   search_results, resources_found, verification_results,
                   civic_response, result, error, ghostVars, sanVars,
                   toolVars, serverVars, extraVars>>

\* search_resources without a search tool: _use_fallback_resources
SearchUnavailable ==
    /\ pc = "search_resources"
    /\ stream_messages' = Stream("Searching for relevant civic resources...")
    /\ needs_search
    /\ ~search_tool
    /\ pc' = "verify_resources"
    /\ response_source' = "fallback"
    /\ resources_found' = FallbackResources(need_category)
    /\ search_outcome' = "unavailable"
    /\ UNCHANGED <<search_tool, store, user_message, session_id,
                   enable_streaming, current_date,
                   conversation_history, needs_search, need_category,
                   urgency_level, search_performed, search_query,
                   search_results, verification_results, civic_response,
                   result, error, llm_outcome, classifier_path,
                   verifier_invoked, verifier_outcome, history_outcome, save_outcome,
                   sanitizer_runs, sanVars,
                   toolVars, serverVars, extraVars>>

\* search_resources with a search tool: the query is built, the resource crew
\* is kicked off inside the try block; an error ends in the fallback table
SearchPerformed ==
    /\ pc = "search_resources"
    /\ stream_messages' = Stream("Searching for relevant civic resources...")
    /\ needs_search
    /\ search_tool
    /\ pc' = "verify_resources"
    /\ search_query' =
           Some(_build_search_query(need_category, urgency_level, current_date))
    /\ search_performed' = TRUE
    /\ \E outcome \in SearchOutcomes :
           IF outcome.kind = "text"
           THEN /\ search_outcome' = "returned"
                /\ response_source' = "search"
                /\ search_results' = Some(outcome.text)
                /\ resources_found' =
                       IF outcome.text = "" THEN resources_found
                       ELSE ParseSearchResults(outcome.text, need_category,
                                               urgency_level)
           ELSE /\ search_outcome' = "raised"
                /\ response_source' = "fallback"
                /\ search_results' = search_results
                /\ resources_found' = FallbackResources(need_category)
    /\ UNCHANGED <<search_tool, store, user_message, session_id,
                   enable_streaming, current_date,
                   conversation_history, needs_search, need_category,
                   urgency_level, verification_results, civic_response,
                   result, error, llm_outcome, classifier_path,
                   verifier_invoked, verifier_outcome, history_outcome, save_outcome,
                   sanitizer_runs, sanVars,
                   toolVars, serverVars, extraVars>>

\* verify_resources: skipped without resources or without a search
VerifySkipped ==
    /\ pc = "verify_resources"
    /\ stream_messages' = Stream("Verifying resource quality and accessibility...")
    /\ (resources_found = <<>> \/ ~search_performed)
    /\ pc' = "generate_response"
    /\ UNCHANGED <<search_tool, store, stateVars, result, error, ghostVars,
                   sanVars, toolVars, serverVars, extraVars>>

VerifyRunAbortsOnError ==
    /\ pc = "verify_resources"
    /\ stream_messages' = Stream("Verifying resource quality and accessibility...")
    /\ ~(resources_found = <<>> \/ ~search_performed)
    /\ verifier_invoked' = TRUE
    /\ \E outcome \in VerifierOutcomes :
           /\ verifier_outcome' =
                  IF outcome.raised THEN "raised" ELSE "returned"
           /\ verification_results' =
                  IF outcome.raised THEN verification_results
                  ELSE Some(outcome.text)
           /\ pc' = IF outcome.raised THEN "raised" ELSE "generate_response"
           /\ error' = IF outcome.raised THEN Some("verifier failed") ELSE error
    /\ UNCHANGED <<search_tool, store, user_message, session_id,
                   enable_streaming, current_date,
                   conversation_history, needs_search, need_category,
                   urgency_level, search_performed, search_query,
                   search_results, resources_found, civic_response,
                   response_source, result, llm_outcome,
                   classifier_path, search_outcome, history_outcome, save_outcome,
                   sanitizer_runs, sanVars, toolVars, serverVars, extraVars>>

VerifyRunDropsFlagged ==
    /\ pc = "verify_resources"
    /\ stream_messages' = Stream("Verifying resource quality and accessibility...")
    /\ ~(resources_found = <<>> \/ ~search_performed)
    /\ pc' = "generate_response"
    /\ verifier_invoked' = TRUE
    /\ \E outcome \in VerifierOutcomes :
           /\ verifier_outcome' =
                  IF outcome.raised THEN "raised" ELSE "returned"
           /\ verification_results' =
                  IF outcome.raised THEN Some(VerificationUnavailable)
                  ELSE Some(outcome.text)
           /\ resources_found' =
                  IF outcome.raised THEN resources_found
                  ELSE Tail(resources_found)
    /\ UNCHANGED <<search_tool, store, user_message, session_id,
                   enable_streaming, current_date,
                   conversation_history, needs_search, need_category,
                   urgency_level, search_performed, search_query,
                   search_results, civic_response, response_source, result,
                   error, llm_outcome, classifier_path, search_outcome,
                   history_outcome, save_outcome, sanitizer_runs, sanVars,
                   toolVars, serverVars, extraVars>>

\* verify_resources: the verifier crew reports, or its error is replaced by
\* the fixed text
VerifyRun ==
    /\ pc = "verify_resources"
    /\ stream_messages' = Stream("Verifying resource quality and accessibility...")
    /\ ~(resources_found = <<>> \/ ~search_performed)
    /\ pc' = "generate_response"
    /\ verifier_invoked' = TRUE
    /\ \E outcome \in VerifierOutcomes :
           /\ verifier_outcome' =
                  IF outcome.raised THEN "raised" ELSE "returned"
           /\ verification_results' =
                  IF outcome.raised THEN Some(VerificationUnavailable)
                  ELSE Some(outcome.text)
    /\ UNCHANGED <<search_tool, store, user_message, session_id,
                   enable_streaming, current_date,
                   conversation_history, needs_search, need_category,
                   urgency_level, search_performed, search_query,
                   search_results, resources_found, civic_response,
                   response_source, result, error, llm_outcome,
                   classifier_path, search_outcome, history_outcome, save_outcome,
                   sanitizer_runs, sanVars,
                   toolVars, serverVars, extraVars>>

\* how save_conversation can end for a turn
SaveOutcomes == {"saved", "store_failed", "not_run"}

\* NOW() of a new row: later than every row of the table
Now(rows) ==
    IF rows = <<>> THEN 1
    ELSE 1 + (CHOOSE t \in {rows[i].created_at : i \in 1..Len(rows)} :
                 \A i \in 1..Len(rows) : rows[i].created_at <= t)

\* the row save_conversation inserts for the turn
SavedRow(response) ==
    [session_id |-> session_id,
     user_message |-> user_message,
     agent_response |-> response,
     need_category |-> need_category,
     urgency_level |-> urgency_level,
     search_performed |-> search_performed,
     search_query |-> search_query,
     resources_count |-> Len(resources_found),
     created_at |-> Now(store)]

generate_response_keeps_source ==
    /\ pc = "generate_response"
    /\ stream_messages' = stream_messages
    /\ pc' = "finished"
    /\ IF response_source = "conversation"
       THEN /\ civic_response' = ConversationGreeting
            /\ response_source' = response_source
       ELSE IF Truthy(search_results) /\ search_performed
       THEN /\ civic_response' = DirectPrefix(need_category) \o search_results[1]
            /\ response_source' = "direct_search_results"
       ELSE /\ civic_response' = FallbackResponse
            /\ response_source' = response_source
    /\ \E outcome \in SaveOutcomes :
           /\ save_outcome' = outcome
           /\ store' = IF outcome = "saved"
                       THEN Append(store, SavedRow(civic_response'))
                       ELSE store
    /\ UNCHANGED <<search_tool, user_message, session_id, enable_streaming,
                   current_date,
                   conversation_history, needs_search, need_category,
                   urgency_level, search_performed, search_query,
                   search_results, resources_found, verification_results,
                   result, error, llm_outcome, classifier_path,
                   search_outcome, verifier_invoked, verifier_outcome,
                   history_outcome, sanitizer_runs, sanVars, toolVars, serverVars,
                   extraVars>>

generate_response_any_search_text ==
    /\ pc = "generate_response"
    /\ stream_messages' = stream_messages
    /\ pc' = "finished"
    /\ IF response_source = "conversation"
       THEN /\ civic_response' = ConversationGreeting
            /\ response_source' = response_source
       ELSE IF search_results # None /\ search_performed
       THEN /\ civic_response' = DirectPrefix(need_category) \o search_results[1]
            /\ response_source' = "direct_search_results"
       ELSE /\ civic_response' = FallbackResponse
            /\ response_source' = "fallback"
    /\ \E outcome \in SaveOutcomes :
           /\ save_outcome' = outcome
           /\ store' = IF outcome = "saved"
                       THEN Append(store, SavedRow(civic_response'))
                       ELSE store
    /\ UNCHANGED <<search_tool, user_message, session_id, enable_streaming,
                   current_date,
                   conversation_history, needs_search, need_category,
                   urgency_level, search_performed, search_query,
                   search_results, resources_found, verification_results,
                   result, error, llm_outcome, classifier_path,
                   search_outcome, verifier_invoked, verifier_outcome,
                   history_outcome, sanitizer_runs, sanVars, toolVars, serverVars,
                   extraVars>>

\* generate_response: the three cases of the assembler, then the save.  The
\* save is asyncio.create_task(...), not awaited: the task is not created
\* when the stage runs without an event loop, it is cancelled when the flow's
\* loop closes first, and otherwise it writes the row or fails on the store
generate_response ==
    /\ pc = "generate_response"
    /\ stream_messages' = stream_messages
    /\ pc' = "finished"
    /\ IF response_source = "conversation"
       THEN /\ civic_response' = ConversationGreeting
            /\ response_source' = response_source
       ELSE IF Truthy(search_results) /\ search_performed
       THEN /\ civic_response' = DirectPrefix(need_category) \o search_results[1]
            /\ response_source' = "direct_search_results"
       ELSE /\ civic_response' = FallbackResponse
            /\ response_source' = "fallback"
    /\ \E outcome \in SaveOutcomes :
           /\ save_outcome' = outcome
           /\ store' = IF outcome = "saved"
                       THEN Append(store, SavedRow(civic_response'))
                       ELSE store
    /\ UNCHANGED <<search_tool, user_message, session_id, enable_streaming,
                   current_date,
                   conversation_history, needs_search, need_category,
                   urgency_level, search_performed, search_query,
                   search_results, resources_found, verification_results,
                   result, error, llm_outcome, classifier_path,
                   search_outcome, verifier_invoked, verifier_outcome,
                   history_outcome, sanitizer_runs, sanVars, toolVars, serverVars,
                   extraVars>>

ReturnResultUncleaned ==
    /\ pc = "finished"
    /\ stream_messages' = Stream("Processing complete!")
    /\ pc' = "returned"
    /\ result' = [response |-> civic_response,
                  resources |-> resources_found,
                  search_performed |-> search_performed,
                  need_category |-> need_category,
                  urgency_level |-> urgency_level,
                  response_source |-> response_source,
                  success |-> TRUE]
    /\ UNCHANGED <<search_tool, store, stateVars, error, ghostVars, sanVars,
                   toolVars, serverVars, extraVars>>

\* run_civic_chat(_streaming) after the flow: the resources are cleaned and
\* returned
ReturnResult ==
    /\ pc = "finished"
    /\ stream_messages' = Stream("Processing complete!")
    /\ pc' = "returned"
    /\ sanitizer_runs' = sanitizer_runs + 1
    /\ result' = [response |-> civic_response,
                  resources |-> _clean_fake_urls(resources_found),
                  search_performed |-> search_performed,
                  need_category |-> need_category,
                  urgency_level |-> urgency_level,
                  response_source |-> response_source,
                  success |-> TRUE]
    /\ UNCHANGED <<search_tool, store, stateVars, error, llm_outcome,
                   classifier_path, search_outcome, verifier_invoked,
                   verifier_outcome, history_outcome, save_outcome, sanVars,
                   toolVars, serverVars, extraVars>>

ReturnErrorRaw ==
    /\ pc = "raised"
    /\ stream_messages' = Stream("Error occurred: " \o error[1])
    /\ pc' = "returned"
    /\ result' = [response |-> error[1],
                  resources |-> <<>>,
                  search_performed |-> FALSE,
                  need_category |-> "general",
                  urgency_level |-> "medium",
                  response_source |-> "error",
                  error |-> error[1],
                  success |-> TRUE]
    /\ UNCHANGED <<search_tool, store, stateVars, error, ghostVars, sanVars,
                   toolVars, serverVars, extraVars>>

\* run_civic_chat's except block
ReturnError ==
    /\ pc = "raised"
    /\ stream_messages' = Stream("Error occurred: " \o error[1])
    /\ pc' = "returned"
    /\ result' = [response |-> ErrorResponse,
                  resources |-> <<>>,
                  search_performed |-> FALSE,
                  need_category |-> "general",
                  urgency_level |-> "medium",
                  response_source |-> "error",
                  error |-> error[1],
                  success |-> FALSE]
    /\ UNCHANGED <<search_tool, store, stateVars, error, ghostVars, sanVars,
                   toolVars, serverVars, extraVars>>

Next ==
    \/ StartFlow
    \/ StartFails
    \/ initialize_context
    \/ decide_strategy
    \/ SearchNotNeeded
    \/ SearchUnavailable
    \/ SearchPerformed
    \/ VerifySkipped
    \/ VerifyRun
    \/ generate_response
    \/ ReturnResult
    \/ ReturnError

Spec == Init /\ [][Next]_vars

\* requests of one session with three of the messages
FairInit ==
    /\ Init
    /\ session_id = "anna"
    /\ user_message \in {"hi", "I am hungry", "urgent rent help"}

\* a step of Next: the request leaves the place it is at
StageEnds ==
    /\ pc # "returned"
    /\ pc' \in {"initialize_context", "decide_strategy", "search_resources",
                "verify_resources", "generate_response", "finished",
                "raised", "returned"}
    /\ pc' # pc

\* every stage that has started runs to its end
FairSpec == FairInit /\ [][Next]_vars /\ WF_pc(StageEnds)

(***************************************************************************)
(* Inputs of the sanitizer harness.                                        *)
(***************************************************************************)
FakeUrlInputs ==
    { "https://211centralillinois.org/x", "http://www.hoihabitat.org",
      "illinoissbdc.org/peoria.score.org" }

CleanUrlInputs == { "", "tel:211", "https://www.pha-il.com" }

ContactInputs ==
    { "", "Dial 2-1-1", "2-1-1", "(309) 555-0100", "(309)5550100",
      "309) 555-0100", "309-555-0100", "Dial 309 555 0100",
      "(309) 555-0100 x2", "1-800-252-2873", "See details" }

ResourceInputs ==
    { [name |-> "Org", url |-> u, contact |-> c] :
          u \in FakeUrlInputs, c \in ContactInputs }
    \cup { [name |-> "Org", url |-> u, contact |-> "(309) 555-0100"] :
               u \in CleanUrlInputs }
    \cup { [name |-> "Org", contact |-> "(309) 555-0100"],
           [name |-> "Org", url |-> "http://www.hoihabitat.org"] }

ResourceListInputs ==
    UNION { [1..n -> ResourceInputs] : n \in 0..MaxResources }

(***************************************************************************)
(* Sanitizer harness: a list is drawn, sanitized, and sanitized again.     *)
(***************************************************************************)
PipeIdle ==
    /\ pc = "idle"
    /\ search_tool = FALSE
    /\ store = <<>>
    /\ user_message = ""
    /\ session_id = ""
    /\ enable_streaming = FALSE
    /\ current_date = ""
    /\ conversation_history = <<>>
    /\ needs_search = FALSE
    /\ need_category = ""
    /\ urgency_level = "medium"
    /\ search_performed = FALSE
    /\ search_query = None
    /\ search_results = None
    /\ resources_found = <<>>
    /\ verification_results = None
    /\ civic_response = ""
    /\ response_source = ""
    /\ result = EmptyDict
    /\ error = None
    /\ stream_messages = <<>>
    /\ llm_outcome = EmptyDict
    /\ classifier_path = "none"
    /\ search_outcome = "none"
    /\ verifier_invoked = FALSE
    /\ verifier_outcome = "none"
    /\ history_outcome = "none"
    /\ save_outcome = "none"
    /\ sanitizer_runs = 0

SanInit ==
    /\ PipeIdle
    /\ ToolIdle
    /\ ServerIdle
    /\ ExtraIdle
    /\ san_stage = "input"
    /\ san_fn = "none"
    /\ san_in \in ResourceListInputs
    /\ san_once = <<>>
    /\ san_out = <<>>

CleanOnce ==
    /\ san_stage = "input"
    /\ san_stage' = "once"
    /\ san_fn' = "clean"
    /\ san_once' = _clean_fake_urls(san_in)
    /\ san_out' = _clean_fake_urls(san_in)
    /\ UNCHANGED <<san_in, pipeVars, toolVars, serverVars, extraVars>>

ValidateOnce ==
    /\ san_stage = "input"
    /\ san_stage' = "once"
    /\ san_fn' = "validate"
    /\ san_once' = _validate_resource_urls(san_in)
    /\ san_out' = _validate_resource_urls(san_in)
    /\ UNCHANGED <<san_in, pipeVars, toolVars, serverVars, extraVars>>

CleanAgain ==
    /\ san_stage = "once"
    /\ san_stage' = "twice"
    /\ san_out' = _clean_fake_urls(san_once)
    /\ UNCHANGED <<san_fn, san_in, san_once, pipeVars, toolVars, serverVars,
                   extraVars>>

SanNext == CleanOnce \/ ValidateOnce \/ CleanAgain

SanitizerSpec == SanInit /\ [][SanNext]_vars

(***************************************************************************)
(* Verification tools: PhoneValidatorTool.  The symbol and the space that  *)
(* open each returned text are not ASCII and are left out.                 *)
(***************************************************************************)
\* clean_phone = re.sub(r'[^\d]', '', phone_number)
CleanPhone(phone_number) ==
    Join([i \in 1..Len(phone_number) |->
             IF IsDigit(Char(phone_number, i)) THEN Char(phone_number, i)
             ELSE ""])

PhoneValid(clean_phone) ==
    "VALID: (" \o SubSeq(clean_phone, 1, 3) \o ") " \o SubSeq(clean_phone, 4, 6)
        \o "-" \o SubSeq(clean_phone, 7, 10)
        \o " - Peoria County area code confirmed"

PhoneWarning(phone_number, other_area) ==
    "WARNING: " \o phone_number \o " uses area code " \o other_area
        \o ", not 309 (Peoria County)"

PhoneInvalid(phone_number) ==
    "INVALID: " \o phone_number \o " - Invalid phone number format"

PhoneValidatorAtLeastTen(phone_number) ==
    IF Len(CleanPhone(phone_number)) >= 10
           /\ StartsWith(CleanPhone(phone_number), "309")
    THEN PhoneValid(CleanPhone(phone_number))
    ELSE IF Len(CleanPhone(phone_number)) >= 10
    THEN PhoneWarning(phone_number, SubSeq(CleanPhone(phone_number), 1, 3))
    ELSE PhoneInvalid(phone_number)

\* PhoneValidatorTool._run
PhoneValidatorTool_run(phone_number) ==
    IF Len(CleanPhone(phone_number)) = 10
           /\ StartsWith(CleanPhone(phone_number), "309")
    THEN PhoneValid(CleanPhone(phone_number))
    ELSE IF Len(CleanPhone(phone_number)) = 10
    THEN PhoneWarning(phone_number, SubSeq(CleanPhone(phone_number), 1, 3))
    ELSE PhoneInvalid(phone_number)

\* phone numbers in three parts, with 7 to 12 digits in all
PhoneInputs ==
    { area \o exchange \o line :
          area \in {"309", "(309) ", "217", "(217) ", "1309", "30", "+1 (309) "},
          exchange \in {"555", "555-", " 555.", "55"},
          line \in {"0100", "0100 x", "010", "01000"} }

\* GeocodingTool._run: the place names that count as Peoria County
peoria_indicators ==
    <<"peoria", "pekin", "bartonville", "chillicothe", "dunlap", "elmwood",
      "glasford", "hanna city", "mapleton", "morton", "peoria heights",
      "washington", "west peoria">>

GeocodingToolAnyPlaceWithState(address) ==
    IF ContainsAny(Lower(address), peoria_indicators)
    THEN IF Contains(Lower(address), "il")
         THEN "CONFIRMED: " \o address
                  \o " - Located in Peoria County, Illinois"
         ELSE "LIKELY: " \o address \o " - Appears to be in Peoria County area"
    ELSE "UNCERTAIN: " \o address \o " - Cannot confirm Peoria County location"

\* GeocodingTool._run(address)
GeocodingTool_run(address) ==
    IF ContainsAny(Lower(address), peoria_indicators)
    THEN IF Contains(Lower(address), "peoria") /\ Contains(Lower(address), "il")
         THEN "CONFIRMED: " \o address
                  \o " - Located in Peoria County, Illinois"
         ELSE "LIKELY: " \o address \o " - Appears to be in Peoria County area"
    ELSE "UNCERTAIN: " \o address \o " - Cannot confirm Peoria County location"

\* free-text addresses: with and without a place name, a state, a street
AddressInputs ==
    { street \o place \o state :
          street \in {"", "600 NE Adams Street, ", "12 Mill Road, "},
          place \in {"Peoria", "PEORIA", "Peoria Heights", "West Peoria",
                     "Pekin", "Morton", "Hanna City", "Chillicothe",
                     "Springfield", "Chicago", ""},
          state \in {"", ", IL", ", Illinois", " il 61602", ", AZ"} }

ToolInit ==
    /\ PipeIdle
    /\ SanIdle
    /\ ServerIdle
    /\ ExtraIdle
    /\ tool_stage = "input"
    /\ tool_name = "none"
    /\ tool_in \in PhoneInputs \cup AddressInputs
    /\ tool_out = ""

PhoneValidatorRun ==
    /\ tool_stage = "input"
    /\ tool_in \in PhoneInputs
    /\ tool_stage' = "done"
    /\ tool_name' = "phone_validator_tool"
    /\ tool_out' = PhoneValidatorTool_run(tool_in)
    /\ UNCHANGED <<tool_in, pipeVars, sanVars, serverVars, extraVars>>

GeocodingRun ==
    /\ tool_stage = "input"
    /\ tool_in \in AddressInputs
    /\ tool_stage' = "done"
    /\ tool_name' = "geocoding_tool"
    /\ tool_out' = GeocodingTool_run(tool_in)
    /\ UNCHANGED <<tool_in, pipeVars, sanVars, serverVars, extraVars>>

ToolNext == PhoneValidatorRun \/ GeocodingRun

ToolSpec == ToolInit /\ [][ToolNext]_vars

(***************************************************************************)
(* The server: run_civic_chat and run_civic_chat_streaming calls that run  *)
(* at the same time.  Each keeps its own CivicState; they share the        *)
(* conversations table, crewai_event_bus and _global_tool_listener, and    *)
(* the actions below are the stages' steps on what is shared.              *)
(***************************************************************************)
MaxRequests == 2

\* a request before it is received
NewRequest(id, session, streaming) ==
    [session_id |-> session,
     user_message |-> "message " \o ToString(id),
     enable_streaming |-> streaming,
     at |-> "waiting",
     tool_usage_listener |-> FALSE,
     conversation_history |-> <<>>,
     tool_usage_events |-> <<>>,
     tool_events |-> <<>>]

ServerInit ==
    /\ PipeIdle
    /\ SanIdle
    /\ ToolIdle
    /\ ExtraIdle
    /\ \E sessions \in [1..MaxRequests -> Sessions],
          streaming \in [1..MaxRequests -> BOOLEAN] :
           requests = [id \in 1..MaxRequests |->
                          NewRequest(id, sessions[id], streaming[id])]
    /\ received = <<>>
    /\ event_bus = <<>>
    /\ _global_tool_listener = 0

\* crewai_event_bus.emit: every handler on the bus appends to its own
\* listener's tool_usage_events
Emit(reqs, bus, id, tool, type) ==
    [q \in DOMAIN reqs |->
        [reqs[q] EXCEPT !.tool_usage_events =
            @ \o [i \in 1..Cardinality({h \in 1..Len(bus) : bus[h] = q}) |->
                     [request |-> id, tool |-> tool, type |-> type]]]]

\* one tool call of a crew: a started and a finished event
ToolCall(reqs, bus, id, tool, used) ==
    IF used
    THEN Emit(Emit(reqs, bus, id, tool, "tool_started"),
              bus, id, tool, "tool_finished")
    ELSE reqs

\* setup_listeners(crewai_event_bus) when the state has a listener
Registered(bus, id) ==
    IF requests[id].tool_usage_listener THEN Append(bus, id) ELSE bus

\* the server hands the request to run_civic_chat(_streaming)
Receive(id) ==
    /\ requests[id].at = "waiting"
    /\ requests' = [requests EXCEPT ![id].at = "initialize_context"]
    /\ received' = Append(received, id)
    /\ UNCHANGED <<event_bus, _global_tool_listener, pipeVars, sanVars,
                   toolVars, extraVars>>

RequestInitializeContext(id) ==
    /\ requests[id].at = "initialize_context"
    /\ requests' =
           [requests EXCEPT
               ![id].at = "decide_strategy",
               ![id].tool_usage_listener = requests[id].enable_streaming,
               ![id].conversation_history =
                   get_conversation_history(store, requests[id].session_id,
                                            HistoryLimit)]
    /\ _global_tool_listener' =
           IF requests[id].enable_streaming THEN id ELSE _global_tool_listener
    /\ UNCHANGED <<received, event_bus, pipeVars, sanVars, toolVars, extraVars>>

RequestDecideStrategy(id) ==
    /\ requests[id].at = "decide_strategy"
    /\ event_bus' = Registered(event_bus, id)
    /\ \E raised \in BOOLEAN :
           requests' = [requests EXCEPT ![id].at =
                           IF raised THEN "returned" ELSE "search_resources"]
    /\ UNCHANGED <<received, _global_tool_listener, pipeVars, sanVars,
                   toolVars, extraVars>>

RequestSearchResources(id) ==
    /\ requests[id].at = "search_resources"
    /\ \E needs_search_now \in BOOLEAN, used \in BOOLEAN :
           /\ used => needs_search_now
           /\ event_bus' = IF needs_search_now
                           THEN Registered(event_bus, id) ELSE event_bus
           /\ requests' =
                  [ToolCall(requests, event_bus', id, "serper_search", used)
                      EXCEPT ![id].at = "verify_resources"]
    /\ UNCHANGED <<received, _global_tool_listener, pipeVars, sanVars,
                   toolVars, extraVars>>

RequestVerifyResources(id) ==
    /\ requests[id].at = "verify_resources"
    /\ \E used \in BOOLEAN :
           requests' = [ToolCall(requests, event_bus, id, "website_checker_tool",
                                     used)
                           EXCEPT ![id].at = "generate_response"]
    /\ UNCHANGED <<received, event_bus, _global_tool_listener, pipeVars,
                   sanVars, toolVars, extraVars>>

RequestGenerateResponse(id) ==
    /\ requests[id].at = "generate_response"
    /\ event_bus' = Registered(event_bus, id)
    /\ requests' =
           [requests EXCEPT
               ![id].at = "finished",
               ![id].tool_events =
                   IF requests[id].tool_usage_listener
                   THEN requests[id].tool_usage_events
                   ELSE requests[id].tool_events]
    /\ \E outcome \in SaveOutcomes :
           store' = IF outcome = "saved"
                    THEN Append(store,
                             [StoredRow(requests[id].session_id, Now(store))
                                 EXCEPT !.user_message =
                                            requests[id].user_message])
                    ELSE store
    /\ UNCHANGED <<received, _global_tool_listener, flowVars, sanVars,
                   toolVars, extraVars>>

RequestReturn(id) ==
    /\ requests[id].at = "finished"
    /\ requests' = [requests EXCEPT ![id].at = "returned"]
    /\ UNCHANGED <<received, event_bus, _global_tool_listener, pipeVars,
                   sanVars, toolVars, extraVars>>

ServerNext ==
    \E id \in 1..MaxRequests :
        \/ Receive(id)
        \/ RequestInitializeContext(id)
        \/ RequestDecideStrategy(id)
        \/ RequestSearchResources(id)
        \/ RequestVerifyResources(id)
        \/ RequestGenerateResponse(id)
        \/ RequestReturn(id)

ServerSpec == ServerInit /\ [][ServerNext]_vars

(***************************************************************************)
(* Properties of the URL sanitizer, checked under SanitizerSpec.           *)
(***************************************************************************)
\* the url of the i-th resource of a list, "" when it has none
UrlOf(resources, i) == Get(resources[i], "url", "")

\* a url holds one of the denylisted domains
Denylisted(url) ==
    \E k \in 1..Len(fake_domains) :
        \E p \in 1..(Len(url) - Len(fake_domains[k]) + 1) :
            SubSeq(url, p, p + Len(fake_domains[k]) - 1) = fake_domains[k]

\* C1: for every input list, no resource of the list the sanitizer returns
\* (_clean_fake_urls or its twin _validate_resource_urls) has a url that
\* contains a denylisted domain
C1_NoDenylistedUrlReturned ==
    san_stage \in {"once", "twice"} =>
        \A i \in 1..Len(san_out) : ~Denylisted(UrlOf(san_out, i))

\* a list with a denylisted url other than the first domain's went through
\* the sanitizer and came back rewritten
C1_Witness ==
    /\ san_stage = "once"
    /\ \E i \in 1..Len(san_in) :
           /\ Denylisted(UrlOf(san_in, i))
           /\ ~Contains(UrlOf(san_in, i), fake_domains[1])
           /\ StartsWith(UrlOf(san_out, i), "tel:")

\* C2: the sanitizer is idempotent: sanitizing a sanitized list returns that
\* list unchanged
C2_SanitizerIdempotent ==
    san_stage = "twice" => san_out = san_once

\* a list the first pass rewrote has been sanitized a second time
C2_Witness ==
    /\ san_stage = "twice"
    /\ san_once # san_in
    /\ \E i \in 1..Len(san_in) :
           Denylisted(UrlOf(san_in, i)) /\ ~IsDialable(Get(san_in[i], "contact", ""))

\* all the digits of a contact, in order
DigitsOf(contact) == Join(FindAllDigits(contact))

\* the contact names the 2-1-1 information line
InformationLine(contact) ==
    Contains(contact, "Dial 2-1-1") \/ StartsWith(contact, "2-1-1")

\* C3: when a denylisted url is replaced, a dialable contact whose digits
\* total exactly 10 yields tel:XXX-XXX-XXXX built from those digits, the
\* 2-1-1 information line yields tel:211, and a contact that is not dialable
\* yields tel:211
C3_ReplacementFromContact ==
    san_stage = "once" =>
        \A i \in 1..Len(san_in) :
            Denylisted(UrlOf(san_in, i)) =>
                LET contact == Get(san_in[i], "contact", "")
                    digits  == DigitsOf(contact)
                IN  IF ~IsDialable(contact) THEN UrlOf(san_out, i) = "tel:211"
                    ELSE IF InformationLine(contact)
                    THEN UrlOf(san_out, i) = "tel:211"
                    ELSE Len(digits) = 10 =>
                             UrlOf(san_out, i) =
                                 "tel:" \o SubSeq(digits, 1, 3) \o "-"
                                     \o SubSeq(digits, 4, 6) \o "-"
                                     \o SubSeq(digits, 7, 10)

(***************************************************************************)
(* Properties of the need classifier, checked under Spec.                  *)
(***************************************************************************)
\* the message is hi, hello or hey once trimmed and lower-cased
GreetingMessage(message) == Strip(Lower(message)) \in {"hi", "hello", "hey"}

\* the lower-case word stands at place i of the message as a whole word, in
\* any letter case
WholeWordAt(message, word, i) ==
    /\ i + Len(word) - 1 <= Len(message)
    /\ (i = 1 \/ ~IsWordChar(Char(message, i - 1)))
    /\ (i + Len(word) > Len(message) \/ ~IsWordChar(Char(message, i + Len(word))))
    /\ Lower(SubSeq(message, i, i + Len(word) - 1)) = word

\* some keyword of the set stands in the message as a whole word
MatchesKeyword(message, words) ==
    \E k \in 1..Len(words) :
        \E i \in 1..Len(message) : WholeWordAt(message, words[k], i)

\* C4: in the rule-based fallback, a message that is hi, hello or hey after
\* trimming and lower-casing gets needs_search = false and need_category = "",
\* and no other message does
C4_GreetingIsConversationOnly ==
    classifier_path = "fallback" =>
        (GreetingMessage(user_message)
             <=> (needs_search = FALSE /\ need_category = ""))

\* the fallback classified a greeting written with spaces and capitals
C4_Witness ==
    /\ classifier_path = "fallback"
    /\ user_message = "  Hello "
    /\ needs_search = FALSE
    /\ need_category = ""

\* C5: in the rule-based fallback, a message with a housing keyword and no
\* emergency keyword gets need_category = housing and urgency_level = medium;
\* with an emergency keyword added it gets urgency_level = high and still
\* need_category = housing
C5_HousingUrgency ==
    (classifier_path = "fallback" /\ MatchesKeyword(user_message, housing_words)) =>
        /\ need_category = "housing"
        /\ urgency_level =
               IF MatchesKeyword(user_message, emergency_words) THEN "high"
               ELSE "medium"
        /\ ~MatchesKeyword(user_message, emergency_words) =>
               \A k \in 1..Len(emergency_words) :
                   LET added == FallbackAnalysis(
                                    user_message \o " " \o emergency_words[k],
                                    "", "medium")
                   IN  /\ added.need_category = "housing"
                       /\ added.urgency_level = "high"

\* the fallback classified a housing message that carries an emergency
\* keyword
C5_Witness ==
    /\ classifier_path = "fallback"
    /\ user_message = "urgent rent help"
    /\ need_category = "housing"
    /\ urgency_level = "high"

\* the categories of the fallback with their keyword sets, in priority order
PriorityOrder ==
    << <<"housing", housing_words>>, <<"food", food_words>>,
       <<"healthcare", healthcare_words>>, <<"family_services", family_words>>,
       <<"employment", employment_words>>,
       <<"transportation", transportation_words>>, <<"legal", legal_words>>,
       <<"financial", financial_words>> >>

\* the places in the priority order whose keyword set the message matches
MatchedPlaces(message) ==
    {k \in 1..Len(PriorityOrder) : MatchesKeyword(message, PriorityOrder[k][2])}

\* C6: for a message that is not a greeting, the rule-based fallback assigns
\* the category of the first keyword set matched as a whole word in the
\* order housing, food, healthcare, family_services, employment,
\* transportation, legal, financial, and general when none matches
C6_FirstMatchInPriorityOrder ==
    (classifier_path = "fallback" /\ ~GreetingMessage(user_message)) =>
        need_category =
            IF MatchedPlaces(user_message) = {} THEN "general"
            ELSE PriorityOrder[Min(MatchedPlaces(user_message))][1]

\* the fallback classified a message that matches two keyword sets
C6_Witness ==
    /\ classifier_path = "fallback"
    /\ user_message = "food for my home"
    /\ Cardinality(MatchedPlaces(user_message)) = 2
    /\ need_category = "housing"

\* the ten values of the need taxonomy
Taxonomy ==
    {"housing", "food", "healthcare", "transportation", "employment",
     "financial", "legal", "family_services", "elderly_services", "general"}

\* C7: after classification, on the primary and on the fallback path and
\* for every language-model output, need_category is one of the ten
\* taxonomy values
C7_CategoryInTaxonomy ==
    classifier_path \in {"primary", "fallback"} => need_category \in Taxonomy

\* the keys the classifier expects in the model's JSON object
ExpectedKeys == {"need_category", "urgency_level", "search_decision"}

\* the primary path failed: the call raised, the text is not a JSON object,
\* or the object lacks an expected key
PrimaryPathFailed ==
    /\ llm_outcome # EmptyDict
    /\ \/ llm_outcome.raised
       \/ json_loads(ExtractJson(llm_outcome.text)).kind # "dict"
       \/ ~(ExpectedKeys \subseteq
                DOMAIN json_loads(ExtractJson(llm_outcome.text)).obj)

\* C8: every failure of the primary path (unparsable output, missing keys,
\* an error of the language-model call) leads to the rule-based fallback
\* classification, and the turn goes on to a successful result
C8_FailureFallsBack ==
    PrimaryPathFailed =>
        /\ classifier_path = "fallback"
        /\ pc # "raised"
        /\ pc = "returned" => result.success

(***************************************************************************)
(* Properties of the resource searcher, checked under Spec.                *)
(***************************************************************************)
\* the static fallback entry of a category, the generic 211 entry when the
\* category has none
StaticEntry(category) ==
    IF category = "food" THEN FallbackFood
    ELSE IF category = "housing" THEN FallbackHousing
    ELSE FallbackDefault

\* C9: when a search is needed and the search collaborator is unavailable,
\* resources_found is non-empty after search_resources: the category's
\* static fallback entry when it has one, the generic 211 entry otherwise
C9_UnavailableSearchUsesTable ==
    search_outcome = "unavailable" =>
        /\ resources_found # <<>>
        /\ resources_found = StaticEntry(need_category)

\* search_resources ran without a search tool for a category that has no
\* entry of its own
C9_Witness ==
    /\ search_outcome = "unavailable"
    /\ pc = "verify_resources"
    /\ need_category = "legal"
    /\ resources_found = FallbackDefault

\* the search failed: it raised or timed out, or it returned an empty result
SearchFailed ==
    \/ search_outcome = "raised"
    \/ (search_outcome = "returned" /\ search_results = Some(""))

\* C10: every search failure (an error, a timeout, an empty result) ends the
\* turn with resources_found taken from the static fallback table and
\* response_source = fallback
C10_SearchFailureUsesTable ==
    (pc \in {"finished", "returned"} /\ SearchFailed) =>
        /\ resources_found = StaticEntry(need_category)
        /\ response_source = "fallback"

(***************************************************************************)
(* Properties of the resource verifier, checked under Spec.                *)
(***************************************************************************)
\* the records of the static fallback table of _use_fallback_resources
FallbackTableRecords ==
    {FallbackFood[1], FallbackHousing[1], FallbackDefault[1]}

\* C11: the verifier is invoked only when resources exist and a search was
\* performed, and never on a list made only of static fallback-table
\* records, the run whose search failed included
C11_VerifierNeverOnFallbackTable ==
    verifier_invoked =>
        /\ search_performed
        /\ resources_found # <<>>
        /\ \E i \in 1..Len(resources_found) :
               resources_found[i] \notin FallbackTableRecords

\* C12: the verification stage never removes, adds or reorders resources:
\* for every outcome of the verifier (valid, warning, invalid, error)
\* resources_found after verify_resources equals resources_found before it
C12_VerifyKeepsResources ==
    [][pc = "verify_resources" => resources_found' = resources_found]_vars

\* the verifier flagged a resource of a list of several, and the stage is over
C12_Witness ==
    /\ pc = "generate_response"
    /\ verifier_invoked
    /\ Len(resources_found) >= 2
    /\ verification_results =
           Some("- Peoria Food Bank: ISSUE - Phone: INVALID: wrong format")

\* the fields of the returned result that hold text
ResultTextFields ==
    {"response", "need_category", "urgency_level", "response_source"}

\* a text is visible in the returned result: in the response, in a text
\* field, or in a field of a returned resource
VisibleInResult(text) ==
    \/ \E k \in ResultTextFields : Contains(result[k], text)
    \/ \E i \in 1..Len(result.resources) :
           \E k \in DOMAIN result.resources[i] :
               Contains(result.resources[i][k], text)

\* C13: whenever the verifier ran in a turn, its findings are delivered to
\* the caller with the resources: they are visible in the result that
\* run_civic_chat returns, in the response text or in a result field
C13_FindingsDelivered ==
    (/\ pc = "returned"
     /\ result.success
     /\ verifier_invoked
     /\ verification_results # Some(VerificationUnavailable)) =>
        VisibleInResult(verification_results[1])

(***************************************************************************)
(* Properties of the verification tools, checked under ToolSpec.           *)
(***************************************************************************)
\* the places of the digits of a text
DigitPlaces(text) == {i \in 1..Len(text) : Char(text, i) \in Digits}

\* the k-th digit of a text
DigitAt(text, k) == Char(text, Nth(DigitPlaces(text), k))

\* C14: the phone check returns VALID for an input with exactly 10 digits
\* that start with 309, WARNING for exactly 10 digits with another area
\* code, INVALID for any other number of digits; other characters are
\* ignored
C14_PhoneCheckOutcome ==
    (tool_stage = "done" /\ tool_name = "phone_validator_tool") =>
        IF Cardinality(DigitPlaces(tool_in)) = 10
        THEN IF /\ DigitAt(tool_in, 1) = "3"
                /\ DigitAt(tool_in, 2) = "0"
                /\ DigitAt(tool_in, 3) = "9"
             THEN StartsWith(tool_out, "VALID:")
             ELSE StartsWith(tool_out, "WARNING:")
        ELSE StartsWith(tool_out, "INVALID:")

\* the check ran on an 11-digit number that starts with 309
C14_Witness ==
    /\ tool_stage = "done"
    /\ tool_name = "phone_validator_tool"
    /\ tool_in = "(309) 555-01000"
    /\ tool_out = "INVALID: (309) 555-01000 - Invalid phone number format"

(***************************************************************************)
(* Properties of the request boundary, checked under Spec.                 *)
(***************************************************************************)
\* an exception was raised somewhere in the turn, handled by a stage or not
ExceptionRaised ==
    \/ error # None
    \/ search_outcome = "raised"
    \/ verifier_outcome = "raised"

\* C15 as stated: after any exception raised by a stage or a collaborator
\* the turn returns success = false and the fixed call-211 message
C15_AnyExceptionGivesFailure ==
    (pc = "returned" /\ ExceptionRaised) =>
        /\ result.success = FALSE
        /\ result.response = ErrorResponse

\* C15 amended: an exception that no stage handles is caught by
\* run_civic_chat, which returns success = false and the fixed, non-empty
\* call-211 message; a turn without such an exception returns success = true
C15_EscapedExceptionGivesFailure ==
    pc = "returned" =>
        IF error # None
        THEN /\ result.success = FALSE
             /\ result.response = ErrorResponse
             /\ result.response # ""
             /\ result.resources = <<>>
        ELSE result.success = TRUE

\* the classifier call raised and the request was answered
C15_Witness ==
    /\ pc = "returned"
    /\ llm_outcome # EmptyDict
    /\ llm_outcome.raised
    /\ error = Some("LLM call failed")
    /\ result.success = FALSE

\* C16: for the message "hi" the turn, once the system is built and the
\* classifier has been asked, ends with response_source = conversation and
\* an empty resources list
C16_HiIsConversation ==
    (pc = "returned" /\ user_message = "hi" /\ llm_outcome # EmptyDict) =>
        /\ result.response_source = "conversation"
        /\ result.resources = <<>>

(***************************************************************************)
(* Properties of the stages, checked under Spec.                           *)
(***************************************************************************)
\* the places of a character in a text
PlacesOf(text, c) == {i \in 1..Len(text) : Char(text, i) = c}

\* the last place of a non-empty set of places
LastOf(places) == CHOOSE i \in places : \A j \in places : j <= i

\* the classifier answered and decide_strategy has read its text
ClassifierAnswered ==
    /\ llm_outcome # EmptyDict
    /\ ~llm_outcome.raised

\* the classifier's text has a '{' before its last '}'
BraceSpan(text) ==
    /\ PlacesOf(text, "{") # {}
    /\ PlacesOf(text, "}") # {}
    /\ Min(PlacesOf(text, "{")) < LastOf(PlacesOf(text, "}"))

\* C17: when the classifier's text has a '{' before its last '}', the
\* text given to the JSON parser is the substring from the first '{'
\* through the last '}', and a JSON object wrapped in prose puts the turn
\* on the primary path; otherwise the whole text is parsed
C17_JsonSpanExtracted ==
    ClassifierAnswered =>
        IF BraceSpan(llm_outcome.text)
        THEN /\ ExtractJson(llm_outcome.text) =
                    SubSeq(llm_outcome.text,
                           Min(PlacesOf(llm_outcome.text, "{")),
                           LastOf(PlacesOf(llm_outcome.text, "}")))
             /\ json_loads(SubSeq(llm_outcome.text,
                                  Min(PlacesOf(llm_outcome.text, "{")),
                                  LastOf(PlacesOf(llm_outcome.text, "}")))).kind
                    = "dict"
                        => classifier_path = "primary"
        ELSE ExtractJson(llm_outcome.text) = Strip(llm_outcome.text)

\* a JSON object wrapped in prose was classified on the primary path
C17_Witness ==
    /\ pc = "search_resources"
    /\ ClassifierAnswered
    /\ llm_outcome.text = "Here is my answer: " \o JsonHousingHigh \o " Thanks"
    /\ classifier_path = "primary"
    /\ need_category = "housing"
    /\ urgency_level = "high"

\* C18: when needs_search is false, search_resources sets response_source
\* to conversation, does not call the search collaborator, and leaves
\* resources_found empty and search_performed false
C18_NoSearchIsConversation ==
    [][(pc = "search_resources" /\ ~needs_search) =>
           /\ response_source' = "conversation"
           /\ search_outcome' = "none"
           /\ search_query' = None
           /\ search_results' = None
           /\ resources_found' = <<>>
           /\ search_performed' = FALSE]_vars

\* search_resources has run on a state whose needs_search is false
C18_Witness ==
    /\ pc = "verify_resources"
    /\ ~needs_search
    /\ response_source = "conversation"
    /\ classifier_path = "primary"

\* a search was performed and left non-empty raw text
SearchLeftText ==
    /\ search_performed
    /\ search_results # None
    /\ search_results # Some("")

\* C19: the assembler sets civic_response by three cases: the fixed
\* greeting when response_source is conversation; the category lead-in
\* followed by the raw search text when a search was performed and left
\* non-empty text; the fixed call-211 fallback text in every other state
C19_AssemblerThreeCases ==
    [][pc = "generate_response" =>
           civic_response' =
               IF response_source = "conversation"
               THEN ConversationGreeting
               ELSE IF SearchLeftText
               THEN "Here's what I found for your " \o need_category
                        \o " needs:\n\n" \o search_results[1]
               ELSE FallbackResponse]_vars

\* the assembler has presented raw search text under the food lead-in
C19_Witness ==
    /\ pc = "finished"
    /\ search_performed
    /\ search_results = Some("Some general information about local programs.")
    /\ civic_response =
           "Here's what I found for your food needs:\n\nSome general information about local programs."

\* C20: when the narrative verification call raises, verification_results
\* becomes the fixed text "Verification temporarily unavailable", the
\* pipeline goes on to the response stage and resources_found is unchanged
C20_VerifierErrorDegrades ==
    [][(pc = "verify_resources" /\ verifier_outcome' = "raised") =>
           /\ verification_results' = Some("Verification temporarily unavailable")
           /\ pc' = "generate_response"
           /\ resources_found' = resources_found
           /\ error' = None]_vars

\* the verifier raised on a list of two resources and the turn was answered
C20_Witness ==
    /\ pc = "returned"
    /\ verifier_outcome = "raised"
    /\ verification_results = Some("Verification temporarily unavailable")
    /\ Len(resources_found) = 2
    /\ result.success
    /\ Len(result.resources) = 2

(***************************************************************************)
(* Properties of the history store, checked under Spec.                    *)
(***************************************************************************)
\* the rows of the table that belong to the request's session
SessionTurns == {i \in 1..Len(store) : store[i].session_id = session_id}

\* the session's rows that have fewer than HistoryLimit newer rows
LatestTurns ==
    {i \in SessionTurns :
        Cardinality({j \in SessionTurns :
                        store[j].created_at > store[i].created_at})
            < HistoryLimit}

\* the k-th oldest of the latest turns
LatestTurn(k) ==
    store[CHOOSE i \in LatestTurns :
              Cardinality({j \in LatestTurns :
                              store[j].created_at < store[i].created_at})
                  = k - 1]

\* C21: the history read returns at most limit (5) prior turns, all of the
\* request's session, the most recent ones, oldest first, one user and one
\* assistant entry per turn; on a store error it returns an empty history
\* and the turn goes on to the classifier
C21_HistoryRecentChronological ==
    (pc = "decide_strategy") =>
        IF history_outcome = "failed"
        THEN conversation_history = <<>>
        ELSE /\ history_outcome = "read"
             /\ Cardinality(LatestTurns) <= HistoryLimit
             /\ Len(conversation_history) = 2 * Cardinality(LatestTurns)
             /\ \A k \in 1..Cardinality(LatestTurns) :
                    /\ conversation_history[2 * k - 1].role = "user"
                    /\ conversation_history[2 * k - 1].content
                           = LatestTurn(k).user_message
                    /\ conversation_history[2 * k].role = "assistant"
                    /\ conversation_history[2 * k].content
                           = LatestTurn(k).agent_response

\* a session with six stored turns got its five newest, oldest first
C21_Witness ==
    /\ pc = "decide_strategy"
    /\ history_outcome = "read"
    /\ session_id = "anna"
    /\ Len(conversation_history) = 10
    /\ conversation_history[1].content = "question 2"
    /\ conversation_history[10].content = "answer 7"

\* the table holds a row for the turn of this request
TurnStored ==
    \E i \in 1..Len(store) :
        /\ store[i].session_id = session_id
        /\ store[i].user_message = user_message
        /\ store[i].agent_response = civic_response
        /\ store[i].resources_count = Len(resources_found)

\* C22: every turn that reaches the response stage is eventually appended
\* to the history store, unless the store itself fails
C22_TurnEventuallyPersisted ==
    (pc = "generate_response") ~> (TurnStored \/ save_outcome = "store_failed")

(***************************************************************************)
(* Properties of requests that run at the same time, checked under         *)
(* ServerSpec.                                                             *)
(***************************************************************************)
\* the place of a request in the order of arrival, 0 before it arrives
ArrivalOf(id) ==
    IF \E i \in 1..Len(received) : received[i] = id
    THEN CHOOSE i \in 1..Len(received) : received[i] = id
    ELSE 0

\* the place of a request's row in the table, 0 while it has none
RowOf(id) ==
    IF \E i \in 1..Len(store) :
           store[i].user_message = requests[id].user_message
    THEN CHOOSE i \in 1..Len(store) :
             store[i].user_message = requests[id].user_message
    ELSE 0

\* C23: of two requests of one session the one received first is written
\* to the history store first, also when they are handled at the same time
C23_PersistedInOrderReceived ==
    \A a, b \in DOMAIN requests :
        (/\ requests[a].session_id = requests[b].session_id
         /\ RowOf(a) > 0
         /\ RowOf(b) > 0
         /\ ArrivalOf(a) < ArrivalOf(b))
            => RowOf(a) < RowOf(b)

\* C25: the tool events returned for a request record only the tool calls
\* of that request, each once, however the requests interleave
C25_ToolEventsOwnAndOnce ==
    \A id \in DOMAIN requests :
        \A i \in 1..Len(requests[id].tool_events) :
            /\ requests[id].tool_events[i].request = id
            /\ \A j \in 1..Len(requests[id].tool_events) :
                   requests[id].tool_events[j] = requests[id].tool_events[i]
                       => j = i

(***************************************************************************)
(* Properties of the order of the stages, checked under Spec.              *)
(***************************************************************************)
\* the stages in the order of the flow, then the sanitizer and the return
StageOrder ==
    <<"initialize_context", "decide_strategy", "search_resources",
      "verify_resources", "generate_response", "finished", "returned">>

\* the place of a stage in the order, 0 for a place outside it
StageRank(stage) ==
    IF \E k \in 1..Len(StageOrder) : StageOrder[k] = stage
    THEN CHOOSE k \in 1..Len(StageOrder) : StageOrder[k] = stage
    ELSE 0

\* C24: the stages of a run execute at most once each and in the strict
\* order initialize_context, decide_strategy, search_resources,
\* verify_resources, generate_response; a stage starts only when the one
\* before it has finished, and the URL sanitizer runs after the last stage
C24_StagesInStrictOrder ==
    [][pc' # pc =>
          /\ \/ StageRank(pc') = StageRank(pc) + 1
             \/ pc' = "raised"
             \/ pc = "raised" /\ pc' = "returned"
          /\ pc' # "returned" => result' = EmptyDict
          /\ (pc = "finished") =>
                 result'.resources = _clean_fake_urls(resources_found)]_vars

\* a run went through the search and the verifier and was returned
C24_Witness ==
    /\ pc = "returned"
    /\ result.success
    /\ search_outcome = "returned"
    /\ verifier_outcome = "returned"
    /\ history_outcome = "read"
    /\ save_outcome = "saved"

(***************************************************************************)
(* Properties of what reaches the user, checked under Spec.                *)
(***************************************************************************)
\* C26: after a failure that run_civic_chat(_streaming) caught, the text
\* of the exception stands only in the result's error field: not in the
\* response text and not in a message sent through the streaming callback
C26_ErrorTextOnlyInErrorField ==
    (pc = "returned" /\ error # None) =>
        /\ result.error = error[1]
        /\ ~Contains(result.response, error[1])
        /\ \A i \in 1..Len(stream_messages) :
               ~Contains(stream_messages[i], error[1])

\* C27: every resource list returned in a successful result, by either
\* entry point and whatever produced the list, has gone through the URL
\* sanitizer after the last stage of the pipeline
C27_ReturnedListSanitized ==
    (pc = "returned" /\ result.success) =>
        /\ sanitizer_runs >= 1
        /\ result.resources = _clean_fake_urls(resources_found)
        /\ \A i \in 1..Len(result.resources) :
               ~Denylisted(UrlOf(result.resources, i))

\* a streaming call returned a list parsed from search text
C27_Witness ==
    /\ pc = "returned"
    /\ result.success
    /\ enable_streaming
    /\ search_outcome = "returned"
    /\ sanitizer_runs = 1
    /\ Len(result.resources) = 2

\* C28: a denylisted domain is never shown to the user: neither the url of
\* a returned resource nor the response text of the turn holds one
C28_NoDenylistedDomainShown ==
    (pc = "returned") =>
        /\ \A i \in 1..Len(result.resources) :
               ~Denylisted(UrlOf(result.resources, i))
        /\ ~Denylisted(result.response)

\* the eight fields of a Resource
ResourceFields ==
    {"name", "category", "description", "contact", "url", "location",
     "eligibility", "next_step"}

\* C29: every returned resource, whatever produced it, carries all eight
\* Resource fields
C29_ResourceHasAllFields ==
    (pc = "returned") =>
        \A i \in 1..Len(result.resources) :
            ResourceFields \subseteq DOMAIN result.resources[i]

\* C30: the result of a turn reports search_performed = true only if the
\* search collaborator's call of that turn ended without an error
C30_SearchPerformedMeansSearchSucceeded ==
    (pc = "returned" /\ result.search_performed) => search_outcome = "returned"

\* the values response_source can have in a returned result
ReturnedSources ==
    {"conversation", "direct_search_results", "fallback", "error"}

NamesOf(resources) == [i \in 1..Len(resources) |-> resources[i].name]

\* the names of the records of the housing tables
EmergencyNames == NamesOf(EmergencyHousingResources)
CoreNames == NamesOf(CoreHousingResources)

\* the search of the turn returned non-empty text and the category is housing
HousingSearchSucceeded ==
    /\ pc \in {"verify_resources", "generate_response", "finished", "returned"}
    /\ search_outcome = "returned"
    /\ Truthy(search_results)
    /\ need_category = "housing"

\* the number of static housing records the urgency calls for
HousingSupplementLen ==
    Len(CoreNames) + (IF urgency_level = "high" THEN Len(EmergencyNames) ELSE 0)

\* C32: after a successful housing search the static housing records are the
\* tail of resources_found, after the parsed ones: the four standard records
\* last, the two emergency-shelter records immediately before them when the
\* urgency is high, and no emergency-shelter record when it is not
C32_HousingSupplementOrder ==
    HousingSearchSucceeded =>
        LET names == NamesOf(resources_found)
            n == Len(names)
            k == HousingSupplementLen
        IN  /\ n >= k
            /\ SubSeq(names, n - Len(CoreNames) + 1, n) = CoreNames
            /\ urgency_level = "high" =>
                   SubSeq(names, n - k + 1, n - Len(CoreNames)) = EmergencyNames
            /\ urgency_level # "high" =>
                   \A i \in 1..n : \A j \in 1..Len(EmergencyNames) :
                       names[i] # EmergencyNames[j]
            /\ \A i \in 1..(n - k) :
                   /\ \A j \in 1..Len(CoreNames) : names[i] # CoreNames[j]
                   /\ \A j \in 1..Len(EmergencyNames) :
                          names[i] # EmergencyNames[j]

\* an urgent housing search whose text held resources of its own
C32_Witness ==
    /\ HousingSearchSucceeded
    /\ pc = "returned"
    /\ urgency_level = "high"
    /\ Len(resources_found) > HousingSupplementLen
    /\ resources_found[1].name # "Search Results Information"

\* a housing search of ordinary urgency
C32_WitnessNotUrgent ==
    /\ HousingSearchSucceeded
    /\ pc = "returned"
    /\ urgency_level # "high"
    /\ Len(resources_found) > HousingSupplementLen

\* search_resources has just ended and its search returned non-empty text
SearchReturnedText ==
    /\ pc = "verify_resources"
    /\ search_outcome = "returned"
    /\ Truthy(search_results)

\* the places of resources_found that hold the synthesized generic resource
GenericPlaces ==
    {i \in 1..Len(resources_found) :
        resources_found[i].name = "Search Results Information"}

\* the raw text, cut to its first 300 characters and "..." when it is longer
CappedText(text) ==
    IF Len(text) <= 300 THEN text ELSE SubSeq(text, 1, 300) \o "..."

\* C33: when the search returned non-empty text and the line parser found no
\* resource, resources_found holds exactly one synthesized generic resource,
\* whose description is the raw text capped at 300 characters; and a search
\* that returned non-empty text never leaves resources_found empty
C33_GenericResourceSynthesized ==
    SearchReturnedText =>
        /\ resources_found # <<>>
        /\ ParsedResources(search_results[1], need_category) = <<>> =>
               /\ Cardinality(GenericPlaces) = 1
               /\ \A i \in GenericPlaces :
                      resources_found[i].description =
                          CappedText(search_results[1])

\* a returned text of more than 300 characters without a parsable resource
C33_Witness ==
    /\ SearchReturnedText
    /\ Len(search_results[1]) > 300
    /\ ParsedResources(search_results[1], need_category) = <<>>
    /\ GenericPlaces = {1}
    /\ Len(resources_found[1].description) = 303

(***************************************************************************)
(* _build_response_context: the clarifying-question block of the context   *)
(* that generate_response builds for its response task.                    *)
(***************************************************************************)

\* len(message.split()): the number of runs of non-space characters
WordCount(message) ==
    Cardinality({i \in 1..Len(message) :
        /\ ~IsSpace(Char(message, i))
        /\ (i = 1 \/ IsSpace(Char(message, i - 1)))})

HousingQuestions ==
    "\n**To help you find the most relevant resources, can you tell me a bit more?**\n\n- Are you looking for **emergency housing** or shelter right now?\n- Do you need help with **rent payments** or rental assistance?\n- Are you interested in **affordable housing** programs or homeownership?\n- Is this about **transitional housing** after a difficult situation?\n\nYou can just tell me which feels closest to your situation, and I'll find more targeted resources for you."

FoodQuestions ==
    "\n**I can help you find the right food resources! What would be most helpful?**\n\n- **Food pantries** for groceries to take home\n- **Hot meals** or soup kitchens  \n- **SNAP benefits** (food stamps) application help\n- **Emergency food** assistance right away\n\nJust let me know what sounds most helpful for your situation."

\* the clarifying_questions of the context of a turn that needs a search
clarifying_questions(category, message) ==
    IF category = "housing" /\ ~Contains(Lower(message), "emergency")
    THEN HousingQuestions
    ELSE IF category = "food" /\ WordCount(message) <= 5
    THEN FoodQuestions
    ELSE ""

\* C34: the reply of a search turn whose context holds a clarifying-question
\* block (housing without "emergency" in the message, food with a message of
\* at most 5 words) carries that block, and no other reply carries one
C34_ReplyCarriesClarifyingBlock ==
    (pc = "finished") =>
        LET block == IF needs_search
                     THEN clarifying_questions(need_category, user_message)
                     ELSE ""
        IN  /\ block # "" => Contains(civic_response, block)
            /\ block # HousingQuestions =>
                   ~Contains(civic_response, HousingQuestions)
            /\ block # FoodQuestions =>
                   ~Contains(civic_response, FoodQuestions)

\* C35: the URL sanitizer changes only the url field of resources whose url
\* holds a denylisted domain: the output has the length and order of the
\* input, every resource keeps its fields and every field but url its value,
\* and a resource whose url is not denylisted, empty or absent is unchanged
C35_SanitizerChangesOnlyFakeUrls ==
    (san_stage = "once") =>
        /\ Len(san_out) = Len(san_in)
        /\ \A i \in 1..Len(san_in) :
               /\ DOMAIN san_out[i] = DOMAIN san_in[i]
               /\ \A key \in DOMAIN san_in[i] \ {"url"} :
                      san_out[i][key] = san_in[i][key]
               /\ ~Denylisted(UrlOf(san_in, i)) => san_out[i] = san_in[i]

\* a list of a resource with a denylisted url, rewritten, and a resource
\* without a url went through the sanitizer
C35_Witness ==
    /\ san_stage = "once"
    /\ san_fn = "clean"
    /\ Len(san_in) = 2
    /\ Denylisted(UrlOf(san_in, 1))
    /\ san_out[1] # san_in[1]
    /\ "url" \notin DOMAIN san_in[2]

\* the secondary place names: every indicator but the principal city itself
SecondaryPlaces ==
    {peoria_indicators[k] : k \in 2..Len(peoria_indicators)}

\* an address holds a text, in any case
Mentions(address, text) == Contains(Lower(address), text)

\* C36: the address check returns CONFIRMED, LIKELY or UNCERTAIN for every
\* address and never INVALID: CONFIRMED when the address holds peoria and il,
\* LIKELY when it holds a secondary place name and not peoria, UNCERTAIN when
\* it holds no known place name
C36_AddressCheckOutcome ==
    (tool_stage = "done" /\ tool_name = "geocoding_tool") =>
        /\ \/ StartsWith(tool_out, "CONFIRMED: " \o tool_in)
           \/ StartsWith(tool_out, "LIKELY: " \o tool_in)
           \/ StartsWith(tool_out, "UNCERTAIN: " \o tool_in)
        /\ ~Contains(tool_out, "INVALID")
        /\ (Mentions(tool_in, "peoria") /\ Mentions(tool_in, "il"))
               => StartsWith(tool_out, "CONFIRMED:")
        /\ (/\ ~Mentions(tool_in, "peoria")
            /\ \E place \in SecondaryPlaces : Mentions(tool_in, place))
               => StartsWith(tool_out, "LIKELY:")
        /\ (/\ ~Mentions(tool_in, "peoria")
            /\ \A place \in SecondaryPlaces : ~Mentions(tool_in, place))
               => StartsWith(tool_out, "UNCERTAIN:")

\* the check ran on an address of a secondary place with the state given
C36_Witness ==
    /\ tool_stage = "done"
    /\ tool_name = "geocoding_tool"
    /\ tool_in = "600 NE Adams Street, Pekin, IL"
    /\ StartsWith(tool_out, "LIKELY:")

(***************************************************************************)
(* The simple flow variant: run_civic_flow of api/civic_flow.py, which     *)
(* calls analyze_request, search_resources and finalize_response in turn.  *)
(***************************************************************************)
\* _parse_search_results of the simple flow: one stripped line of the loop
FlowLine(line, acc, category) ==
    IF line = ""
    THEN IF "name" \in DOMAIN acc.current
         THEN [resources |-> Append(acc.resources, acc.current),
               current |-> EmptyDict]
         ELSE acc
    ELSE IF ContainsAny(Lower(line), <<"name:", "organization:", "program:">>)
    THEN [acc EXCEPT !.current =
             Put(Put(@, "name", AfterColon(line)),
                 "category", CategoryTitle(category))]
    ELSE IF ContainsAny(Lower(line), <<"phone:", "contact:", "call:">>)
    THEN [acc EXCEPT !.current = Put(@, "contact", AfterColon(line))]
    ELSE IF ContainsAny(Lower(line), <<"website:", "web:", "url:">>)
    THEN [acc EXCEPT !.current = Put(@, "url", AfterColon(line))]
    ELSE IF ContainsAny(Lower(line),
                        <<"description:", "services:", "offers:">>)
    THEN [acc EXCEPT !.current = Put(@, "description", AfterColon(line))]
    ELSE IF ContainsAny(Lower(line),
                        <<"eligibility:", "requirements:", "qualifies:">>)
    THEN [acc EXCEPT !.current = Put(@, "eligibility", AfterColon(line))]
    ELSE acc

\* the state of that loop after the first n lines
RECURSIVE FlowLinesUpTo(_, _, _)
FlowLinesUpTo(lines, n, category) ==
    IF n = 0 THEN [resources |-> <<>>, current |-> EmptyDict]
    ELSE FlowLine(Strip(lines[n]), FlowLinesUpTo(lines, n - 1, category),
                  category)

\* the resources of the loop, the last one included
FlowParsed(search_text, category) ==
    LET lines == SplitLines(search_text)
        final == FlowLinesUpTo(lines, Len(lines), category)
    IN  IF "name" \in DOMAIN final.current
        THEN Append(final.resources, final.current) ELSE final.resources

\* the resource made of the raw text when the loop found none
FlowGenericResource(search_text, category) ==
    [name |-> "Local Resource Information",
     category |-> CategoryTitle(category),
     description |-> IF Len(search_text) > 300
                     THEN SubSeq(search_text, 1, 300) \o "..."
                     ELSE search_text,
     contact |-> "Call 2-1-1 for more information",
     url |-> "https://www.211.org",
     eligibility |-> "Varies by program"]

\* _parse_search_results(search_text) of the simple flow: at most 6 resources
FlowParseSearchResults(search_text, category) ==
    LET parsed == FlowParsed(search_text, category)
        found == IF parsed = <<>> /\ search_text # ""
                 THEN <<FlowGenericResource(search_text, category)>>
                 ELSE parsed
    IN  SubSeq(found, 1, Min({6, Len(found)}))

\* _use_local_resources: the local table, or the generic 211 entry
LocalResources(category) ==
    IF category = "housing"
    THEN <<[name |-> "Heart of Illinois Habitat for Humanity",
            category |-> "Housing",
            description |-> "Affordable housing and home repair programs for qualifying families",
            contact |-> "(309) 637-4828", url |-> "tel:309-637-4828",
            eligibility |-> "Income limits apply"]>>
    ELSE IF category = "food"
    THEN <<[name |-> "Peoria Area Food Bank",
            category |-> "Food Security",
            description |-> "Food pantry and emergency food assistance",
            contact |-> "(309) 671-3023", url |-> "tel:309-671-3023",
            eligibility |-> "No income requirements"]>>
    ELSE IF category = "transportation"
    THEN <<[name |-> "CityLink", category |-> "Transportation",
            description |-> "Public transit and paratransit services",
            contact |-> "(309) 676-4040", url |-> "tel:309-676-4040",
            eligibility |-> "General public, discounts for seniors/disabled"]>>
    ELSE <<[name |-> "211 Central Illinois",
            category |-> "General Resources",
            description |-> "Comprehensive information about local health and human services",
            contact |-> "Dial 2-1-1", url |-> "tel:211",
            eligibility |-> "Available to everyone"]>>

FlowMessages ==
    { "hi", "  Hello ", "HEY", "help", "hi there", "I need food",
      "rent help please" }

\* what the analysis crew returns: an error, text that is no JSON object,
\* or a JSON object with some of the keys the task asks for
FlowAnalyses ==
    { [kind |-> "raised", analysis |-> EmptyDict],
      [kind |-> "text", analysis |-> EmptyDict],
      [kind |-> "json",
       analysis |-> [category |-> "intake_greeting", urgency |-> "low",
                     quick_response |-> "Hello! What can I help you find?"]],
      [kind |-> "json",
       analysis |-> [category |-> "food", urgency |-> "high",
                     quick_response |-> "Let me look for food programs."]],
      [kind |-> "json", analysis |-> [category |-> "housing"]] }

FlowSearchTexts ==
    { "",
      "Food help is available downtown.",
      "Name: Peoria Food Bank\nPhone: (309) 555-0100\nWebsite: https://example.org\n\nOrganization: Pantry Two\nServices: groceries" }

FlowSearchOutcomes ==
    { [kind |-> "raised", text |-> ""] }
        \cup { [kind |-> "text", text |-> t] : t \in FlowSearchTexts }

FlowDefaultResponse == "I'm here to help. Let me find resources for you..."

FlowGreeting ==
    "Hello! I'm here to help you find local resources. What do you need help with today?"

FlowInit ==
    /\ PipeIdle
    /\ SanIdle
    /\ ToolIdle
    /\ ServerIdle
    /\ TrackerIdle
    /\ AssessmentIdle
    /\ EndpointIdle
    /\ \E message \in FlowMessages, tool \in BOOLEAN :
           civic_flow = FlowState(message, tool)

\* analyze_request: crew.kickoff() stands outside the try block; the except
\* branch classifies by the message alone
analyze_request ==
    /\ civic_flow.at = "analyze_request"
    /\ \E outcome \in FlowAnalyses :
           civic_flow' =
               IF outcome.kind = "raised"
               THEN [civic_flow EXCEPT !.at = "raised"]
               ELSE IF outcome.kind = "json"
               THEN [civic_flow EXCEPT
                        !.at = "search_resources",
                        !.needs_category =
                            Get(outcome.analysis, "category", "general"),
                        !.urgency_level =
                            Get(outcome.analysis, "urgency", "medium"),
                        !.agent_response =
                            Get(outcome.analysis, "quick_response",
                                FlowDefaultResponse),
                        !.conversation_stage = "searching"]
               ELSE IF Lower(Strip(civic_flow.user_message))
                           \in {"hi", "hello", "hey", "help"}
               THEN [civic_flow EXCEPT
                        !.at = "search_resources",
                        !.needs_category = "intake_greeting",
                        !.agent_response = FlowGreeting,
                        !.conversation_stage = "searching"]
               ELSE [civic_flow EXCEPT
                        !.at = "search_resources",
                        !.needs_category = "general",
                        !.agent_response = FlowDefaultResponse,
                        !.conversation_stage = "searching"]
    /\ UNCHANGED <<pipeVars, sanVars, toolVars, serverVars, tracker,
                   assessment, endpoint>>

\* search_resources, which run_civic_flow calls after analyze_request
\* whatever the analysis found
search_resources ==
    /\ civic_flow.at = "search_resources"
    /\ \E outcome \in FlowSearchOutcomes :
           civic_flow' =
               IF ~civic_flow.search_tool \/ outcome.kind = "raised"
               THEN [civic_flow EXCEPT
                        !.at = "finalize_response",
                        !.response_source = "local_fallback",
                        !.resources_found =
                            LocalResources(civic_flow.needs_category)]
               ELSE [civic_flow EXCEPT
                        !.at = "finalize_response",
                        !.response_source = "crew_search",
                        !.resources_found =
                            FlowParseSearchResults(
                                outcome.text, civic_flow.needs_category)]
    /\ UNCHANGED <<pipeVars, sanVars, toolVars, serverVars, tracker,
                   assessment, endpoint>>

\* "Found N ..." in the tone of the urgency
FlowTone(urgency, resource_count) ==
    IF urgency = "high"
    THEN "Found " \o ToString(resource_count)
             \o " options. Start with the first one - they can help quickly."
    ELSE IF urgency = "medium"
    THEN "Found " \o ToString(resource_count)
             \o " resources that can help. Take a look."
    ELSE "Here are " \o ToString(resource_count) \o " options to explore."

finalize_response ==
    /\ civic_flow.at = "finalize_response"
    /\ civic_flow' =
           IF civic_flow.resources_found = <<>>
           THEN [civic_flow EXCEPT
                    !.at = "finished",
                    !.agent_response =
                        "I'm having trouble finding specific matches right now. For immediate help, call 211 - available 24/7.",
                    !.conversation_stage = "results"]
           ELSE [civic_flow EXCEPT
                    !.at = "finished",
                    !.agent_response =
                        FlowTone(civic_flow.urgency_level,
                                 Len(civic_flow.resources_found))
                            \o " Results are displayed on the right, organized by accessibility.",
                    !.conversation_stage = "results",
                    !.search_completed = TRUE]
    /\ UNCHANGED <<pipeVars, sanVars, toolVars, serverVars, tracker,
                   assessment, endpoint>>

\* run_civic_flow returns the dict of the flow's state, or the error dict
FlowReturn ==
    /\ civic_flow.at \in {"finished", "raised"}
    /\ civic_flow' =
           [civic_flow EXCEPT
               !.at = "returned",
               !.result =
                   IF civic_flow.at = "finished"
                   THEN [success |-> TRUE,
                         response |-> civic_flow.agent_response,
                         resources |-> civic_flow.resources_found,
                         conversation_stage |-> civic_flow.conversation_stage,
                         needs_category |-> civic_flow.needs_category,
                         urgency_level |-> civic_flow.urgency_level,
                         response_source |-> civic_flow.response_source]
                   ELSE [success |-> FALSE,
                         response |-> "I'm having trouble processing your request right now. Please try again.",
                         resources |-> <<>>]]
    /\ UNCHANGED <<pipeVars, sanVars, toolVars, serverVars, tracker,
                   assessment, endpoint>>

FlowNext ==
    analyze_request \/ search_resources \/ finalize_response \/ FlowReturn

FlowSpec == FlowInit /\ [][FlowNext]_vars

\* C37: in run_civic_flow a message that is hi, hello or hey after trimming
\* and lower-casing takes the greeting branch: no search and no local
\* fallback runs, resources stays empty, response_source is
\* greeting_response and the reply is the greeting text the analysis set
C37_GreetingTakesGreetingBranch ==
    (/\ civic_flow.at = "returned"
     /\ civic_flow.result.success
     /\ Lower(Strip(civic_flow.user_message)) \in {"hi", "hello", "hey"})
        => /\ civic_flow.result.resources = <<>>
           /\ civic_flow.result.response_source = "greeting_response"

(***************************************************************************)
(* PerformanceTracker: start, one step call at the head of each stage, and *)
(* the step_timings generate_response derives from it.  Time is counted in *)
(* ticks; tracker.took keeps what each stage really took.                  *)
(***************************************************************************)
\* the stages in the order the flow runs them, each calling step(its name)
TrackedStages ==
    <<"initialize_context", "decide_strategy", "search_resources",
      "verify_resources", "generate_response">>

\* the ticks one stage can take
StageTicks == {1, 2, 3}

\* PerformanceTracker.step(step_name) at time now
TrackerStepped(t, step_name) ==
    IF t.start_time # 0
    THEN [t EXCEPT !.step_times = Put(@, step_name, t.now),
                   !.step_order = Append(@, step_name)]
    ELSE t

\* generate_response, "Calculate step timings": the loop over step_order
StepTimings(t) ==
    [step \in {t.step_order[i] : i \in 1..Len(t.step_order)} |->
        LET step_index ==
                CHOOSE i \in 1..Len(t.step_order) : t.step_order[i] = step
        IN  IF step_index = 1
            THEN t.step_times[step] - t.start_time
            ELSE t.step_times[step]
                     - t.step_times[t.step_order[step_index - 1]]]

TrackerInit ==
    /\ PipeIdle
    /\ SanIdle
    /\ ToolIdle
    /\ ServerIdle
    /\ FlowIdle
    /\ AssessmentIdle
    /\ EndpointIdle
    /\ tracker = [at |-> 1, now |-> 1, start_time |-> 0,
                  step_times |-> EmptyDict, step_order |-> <<>>,
                  step_timings |-> EmptyDict, took |-> EmptyDict]

\* one stage: initialize_context calls start() first, every stage calls
\* step(its name) and then does its work; generate_response ends with
\* finish() and the step timings
TrackedStage ==
    /\ tracker.at \in 1..Len(TrackedStages)
    /\ \E ticks \in StageTicks :
           LET stage == TrackedStages[tracker.at]
               started == IF tracker.at = 1
                          THEN [tracker EXCEPT !.start_time = tracker.now]
                          ELSE tracker
               stepped == TrackerStepped(started, stage)
               worked == [stepped EXCEPT !.now = @ + ticks,
                                         !.took = Put(@, stage, ticks),
                                         !.at = @ + 1]
           IN  tracker' =
                   IF stage = "generate_response"
                   THEN [worked EXCEPT !.step_timings = StepTimings(worked)]
                   ELSE worked
    /\ UNCHANGED <<pipeVars, sanVars, toolVars, serverVars, civic_flow,
                   assessment, endpoint>>

\* run_civic_chat puts final_state.step_timings in the result
TrackerReturn ==
    /\ tracker.at = Len(TrackedStages) + 1
    /\ tracker' = [tracker EXCEPT !.at = 0]
    /\ UNCHANGED <<pipeVars, sanVars, toolVars, serverVars, civic_flow,
                   assessment, endpoint>>

TrackerNext == TrackedStage \/ TrackerReturn

TrackerSpec == TrackerInit /\ [][TrackerNext]_vars

\* C38: on a successful turn step_timings has one entry for each executed
\* stage, and the value under a stage name is the time that stage itself
\* took, from its start to the start of the next stage or the end of the run
C38_StepTimingIsOwnDuration ==
    (tracker.at = 0) =>
        /\ DOMAIN tracker.step_timings = DOMAIN tracker.took
        /\ \A stage \in DOMAIN tracker.took :
               tracker.step_timings[stage] = tracker.took[stage]

(***************************************************************************)
(* The eligibility agent: _evaluate_single_resource and its three checks.  *)
(* A missing key of user_profile reads as None, which "not" treats as "".  *)
(***************************************************************************)
\* _check_income_eligibility: the status of the check
_check_income_eligibility(user_profile, resource) ==
    IF Get(user_profile, "income_level", "") = "" THEN "unknown"
    ELSE IF ~Contains(Lower(Get(resource, "eligibility", "")), "income")
    THEN "eligible"
    ELSE IF /\ Contains(Lower(Get(resource, "eligibility", "")), "low income")
            /\ user_profile["income_level"] \in {"low", "very_low"}
    THEN "eligible"
    ELSE "needs_verification"

\* _check_age_eligibility: the status of the check
_check_age_eligibility(user_profile, resource) ==
    LET age_range == Get(user_profile, "age_range", "")
        resource_name == Lower(Get(resource, "name", ""))
    IN  IF Contains(resource_name, "senior") \/ Contains(resource_name, "elderly")
        THEN IF age_range = "65_plus" THEN "eligible"
             ELSE IF age_range = "" THEN "unknown"
             ELSE "ineligible"
        ELSE IF Contains(resource_name, "youth")
        THEN IF age_range \in {"under_18", "18_24"} THEN "eligible"
             ELSE IF age_range = "" THEN "unknown"
             ELSE "ineligible"
        ELSE "eligible"

\* _check_residency_eligibility: the status of the check
_check_residency_eligibility(user_profile, resource) ==
    LET user_location == Get(user_profile, "geographic_area", "unknown")
        resource_area == Get(resource, "geographic_area", "local")
    IN  IF user_location = "unknown" THEN "unknown"
        ELSE IF resource_area = "local" \/ Contains(resource_area, user_location)
        THEN "eligible"
        ELSE "needs_verification"

\* overall_status after one more check
AfterCheck(overall_status, status, first) ==
    IF status = "ineligible" THEN "ineligible"
    ELSE IF status = "unknown" /\ (first \/ overall_status # "ineligible")
    THEN "needs_verification"
    ELSE overall_status

\* _evaluate_single_resource: the three statuses and the overall status
_evaluate_single_resource(user_profile, resource) ==
    LET income == _check_income_eligibility(user_profile, resource)
        age == _check_age_eligibility(user_profile, resource)
        residency == _check_residency_eligibility(user_profile, resource)
    IN  [status |->
             AfterCheck(AfterCheck(AfterCheck("eligible", income, TRUE),
                                   age, FALSE),
                        residency, FALSE),
         checks_performed |-> <<income, age, residency>>]

\* profiles with and without each of the three keys
UserProfiles ==
    { income @@ age @@ area :
          income \in {EmptyDict, [income_level |-> "low"],
                      [income_level |-> "high"]},
          age \in {EmptyDict, [age_range |-> "65_plus"],
                   [age_range |-> "25_64"], [age_range |-> "18_24"]},
          area \in {EmptyDict, [geographic_area |-> "peoria"],
                    [geographic_area |-> "chicago"]} }

AssessedResources ==
    { [name |-> name, eligibility |-> eligibility] @@ area :
          name \in {"Peoria Food Bank", "Senior Meals", "Youth Works"},
          eligibility \in {"Available to all residents",
                           "Low income households", "Income limits apply"},
          area \in {EmptyDict, [geographic_area |-> "peoria county"]} }

AssessmentInit ==
    /\ PipeIdle
    /\ SanIdle
    /\ ToolIdle
    /\ ServerIdle
    /\ FlowIdle
    /\ TrackerIdle
    /\ EndpointIdle
    /\ \E user_profile \in UserProfiles, resource \in AssessedResources :
           assessment = [at |-> "input", user_profile |-> user_profile,
                         resource |-> resource,
                         eligibility |-> [status |-> "", checks_performed |-> <<>>]]

Evaluate ==
    /\ assessment.at = "input"
    /\ assessment' =
           [assessment EXCEPT
               !.at = "assessed",
               !.eligibility =
                   _evaluate_single_resource(assessment.user_profile,
                                             assessment.resource)]
    /\ UNCHANGED <<pipeVars, sanVars, toolVars, serverVars, civic_flow,
                   tracker, endpoint>>

AssessmentNext == Evaluate

AssessmentSpec == AssessmentInit /\ [][AssessmentNext]_vars

\* C39: the overall status of a resource is eligible only if the income, age
\* and residency checks all returned eligible, and it is ineligible whenever
\* one of them returned ineligible
C39_OverallStatusFollowsChecks ==
    (assessment.at = "assessed") =>
        LET checks == assessment.eligibility.checks_performed IN
        /\ assessment.eligibility.status = "eligible" =>
               \A k \in 1..3 : checks[k] = "eligible"
        /\ (\E k \in 1..3 : checks[k] = "ineligible") =>
               assessment.eligibility.status = "ineligible"

\* the second half of C39 alone: an ineligible check makes the overall status
\* ineligible
IneligibleCheckDecides ==
    (assessment.at = "assessed") =>
        ((\E k \in 1..3 :
              assessment.eligibility.checks_performed[k] = "ineligible")
             => assessment.eligibility.status = "ineligible")

(***************************************************************************)
(* The endpoint POST /api/query: civic_query of api/endpoints/civic_api.py *)
(* and the application's handler of uncaught exceptions.                   *)
(***************************************************************************)
\* a key of request.api_keys: "none" when the request carries no such key
RequestKeys(key) == {"none", "", key}

\* os.environ after "Set API keys if provided"
EnvAfterRequest(env_key, request_key) ==
    IF request_key \notin {"none", ""} THEN request_key ELSE env_key

EndpointInit ==
    /\ PipeIdle
    /\ SanIdle
    /\ ToolIdle
    /\ ServerIdle
    /\ FlowIdle
    /\ TrackerIdle
    /\ AssessmentIdle
    /\ \E message \in {"hi", "I am hungry"},
          request_anthropic \in RequestKeys("sk-ant-request"),
          request_serper \in RequestKeys("serper-request"),
          env_anthropic \in {"", "sk-ant-env"},
          env_serper \in {"", "serper-env"} :
           endpoint = [at |-> "civic_query",
                       message |-> message,
                       request_anthropic |-> request_anthropic,
                       request_serper |-> request_serper,
                       ANTHROPIC_API_KEY |-> env_anthropic,
                       SERPER_API_KEY |-> env_serper,
                       datetime_bound |-> FALSE,
                       chat_calls |-> 0,
                       exception |-> "",
                       status_code |-> 0,
                       body |-> EmptyDict]

\* civic_query up to the check of the required key: the keys of the request
\* go to os.environ, and HTTPException(400) is raised inside the try block
CheckKeys ==
    /\ endpoint.at = "civic_query"
    /\ LET anthropic == EnvAfterRequest(endpoint.ANTHROPIC_API_KEY,
                                        endpoint.request_anthropic)
           serper == EnvAfterRequest(endpoint.SERPER_API_KEY,
                                     endpoint.request_serper)
       IN  endpoint' =
               [endpoint EXCEPT
                   !.ANTHROPIC_API_KEY = anthropic,
                   !.SERPER_API_KEY = serper,
                   !.at = IF anthropic = "" THEN "except"
                          ELSE "run_civic_chat",
                   !.exception = IF anthropic = ""
                                 THEN "400: Anthropic API key required"
                                 ELSE ""]
    /\ UNCHANGED <<pipeVars, sanVars, toolVars, serverVars, civic_flow,
                   tracker, assessment>>

\* await run_civic_chat(...), which returns a dict on success and on failure,
\* then "from datetime import datetime" and the CivicResponse of the result
RunChatAndRespond ==
    /\ endpoint.at = "run_civic_chat"
    /\ \E success \in BOOLEAN :
           endpoint' =
               [endpoint EXCEPT
                   !.at = "responded",
                   !.chat_calls = @ + 1,
                   !.datetime_bound = TRUE,
                   !.status_code = 200,
                   !.body = [success |-> success,
                             response |->
                                 IF success THEN "reply to " \o endpoint.message
                                 ELSE ErrorResponse]]
    /\ UNCHANGED <<pipeVars, sanVars, toolVars, serverVars, civic_flow,
                   tracker, assessment>>

\* the except branch of civic_query: datetime is a local name of the
\* function (it is imported inside the try block after the key check), so
\* datetime.now() raises UnboundLocalError when the import was not reached
ExceptBranch ==
    /\ endpoint.at = "except"
    /\ endpoint' =
           IF endpoint.datetime_bound
           THEN [endpoint EXCEPT
                    !.at = "responded",
                    !.status_code = 200,
                    !.body = [success |-> FALSE, response |-> ErrorResponse,
                              error |-> endpoint.exception]]
           ELSE [endpoint EXCEPT
                    !.at = "unhandled",
                    !.exception = "UnboundLocalError: datetime"]
    /\ UNCHANGED <<pipeVars, sanVars, toolVars, serverVars, civic_flow,
                   tracker, assessment>>

\* global_exception_handler: the reply to an exception that left the endpoint
global_exception_handler ==
    /\ endpoint.at = "unhandled"
    /\ endpoint' =
           [endpoint EXCEPT
               !.at = "responded",
               !.status_code = 500,
               !.body = [success |-> FALSE,
                         error |-> "Internal server error",
                         message |-> "Please try again or call 211 for immediate assistance"]]
    /\ UNCHANGED <<pipeVars, sanVars, toolVars, serverVars, civic_flow,
                   tracker, assessment>>

EndpointNext ==
    CheckKeys \/ RunChatAndRespond \/ ExceptBranch \/ global_exception_handler

EndpointSpec == EndpointInit /\ [][EndpointNext]_vars

\* C40: a POST /api/query request for which no Anthropic API key is available
\* (none in the request, none in the environment) is answered with status
\* 400, and the pipeline is not run for it
C40_MissingKeyRejectedWith400 ==
    (endpoint.at = "responded" /\ endpoint.ANTHROPIC_API_KEY = "") =>
        /\ endpoint.status_code = 400
        /\ endpoint.chat_calls = 0

\* the part of C40 the code keeps: run_civic_chat is not called without a key
PipelineNotRunWithoutKey ==
    (endpoint.at # "idle" /\ endpoint.ANTHROPIC_API_KEY = "") =>
        endpoint.chat_calls = 0

====
